---- MODULE Spec2Model ----
(***************************************************************************)
(* A model of the fns language pipeline: tokenizer -> parser -> evaluator  *)
(* with the chained environment.  Source text is a sequence of characters, *)
(* each character a one-character string; the NUL character is written     *)
(* NUL, the two-byte character U+00E9 is written EAcute.  Indices are the   *)
(* 0-based indices of the Rust code; sequences are 1-based, so the Rust     *)
(* source_code[i] is source_code[i + 1] here.                               *)
(***************************************************************************)
EXTENDS Integers, Sequences, FiniteSets, TLC

VARIABLES
    pc,           \* "tokenize", "parse", "evaluate", "done", "failed", "panicked"
    line,         \* the source text (without sentinel) given to tokenize
    tokens,       \* Vec<Token> returned by tokenize
    program,      \* Vec<Statement> returned by parse
    parent,       \* Option<Environment> handed to evaluate: <<>> or <<env>>
    value,        \* the Value returned by evaluate
    environment,  \* the Environment returned by evaluate
    error,        \* Option<Error>: <<>> or <<[msg, args, text_span]>>
    history       \* the lines evaluated before this one in the chain, with their results

vars == <<pc, line, tokens, program, parent, value, environment, error, history>>

(***************************************************************************)
(* Options and results                                                     *)
(***************************************************************************)
None == <<>>
Some(x) == <<x>>
IsSome(o) == o # <<>>
Unwrap(o) == o[1]

(***************************************************************************)
(* frontend/utils.rs                                                       *)
(***************************************************************************)
TextSpan_new(starting_index, ending_index) ==
    [starting_index |-> starting_index, ending_index |-> ending_index]

TextSpan_add_to_start(starting_span, ending_span) ==
    [starting_index |-> starting_span.starting_index,
     ending_index |-> ending_span.starting_index]

TextSpan_add(starting_span, ending_span) ==
    [starting_index |-> starting_span.starting_index,
     ending_index |-> ending_span.ending_index]

Error_new(msg, args, text_span) ==
    [msg |-> msg, args |-> args, text_span |-> text_span]

\* Error::report: the position printed as `[error in line: {line}, column: {column}]`.
\* The loop walks the characters of the source and stops at the span's starting index.
report_step_keep_column(char, position) ==
    IF char = "\n"
    THEN [line |-> position.line + 1, column |-> position.column + 1]
    ELSE [line |-> position.line, column |-> position.column + 1]

report_step(char, position) ==
    IF char = "\n"
    THEN [line |-> position.line + 1, column |-> 1]
    ELSE [line |-> position.line, column |-> position.column + 1]

RECURSIVE report_loop(_, _, _, _)
report_loop(source_code, index, starting_index, position) ==
    IF index >= Len(source_code) \/ index = starting_index
    THEN position
    ELSE report_loop(source_code, index + 1, starting_index,
                     report_step(source_code[index + 1], position))

report(self, source_code) ==
    report_loop(source_code, 0, self.text_span.starting_index,
                [line |-> 1, column |-> 1])

(***************************************************************************)
(* Characters                                                              *)
(***************************************************************************)
NUL == "NUL"
EAcute == "U+00E9"
Quote == "\""

AsciiDigits == {"0", "1", "2", "3", "4", "5", "6", "7", "8", "9"}

AsciiLetters ==
    {"a", "b", "c", "d", "e", "f", "g", "h", "i", "j", "k", "l", "m",
     "n", "o", "p", "q", "r", "s", "t", "u", "v", "w", "x", "y", "z"}

is_ascii_digit(c) == c \in AsciiDigits

is_alphabetic(c) == c \in AsciiLetters \cup {EAcute}

is_alphanumeric(c) == is_alphabetic(c) \/ is_ascii_digit(c)

is_whitespace(c) == c \in {" ", "\t", "\n", "\r"}

\* The UTF-8 encoding of a character, as a sequence of bytes.
Utf8Char(c) == IF c = EAcute THEN <<"0xC3", "0xA9">> ELSE <<c>>

RECURSIVE Utf8(_)
Utf8(s) == IF s = <<>> THEN <<>> ELSE Utf8Char(Head(s)) \o Utf8(Tail(s))

\* Rust's source_code[a..b] over a Vec<char>.
Slice(s, a, b) == SubSeq(s, a + 1, b)

(***************************************************************************)
(* frontend/token.rs                                                       *)
(***************************************************************************)
Token_new(kind, lexeme, text_span) ==
    [kind |-> kind, lexeme |-> lexeme, text_span |-> text_span]

get_lexeme_type(lexeme) ==
    CASE lexeme = <<"l", "e", "t">> -> "Let"
      [] lexeme = <<"c", "o", "n", "s", "t">> -> "Const"
      [] lexeme = <<"t", "r", "u", "e">> -> "True"
      [] lexeme = <<"f", "a", "l", "s", "e">> -> "False"
      [] lexeme = <<"n", "o", "n", "e">> -> "None"
      [] OTHER -> "Identifier"

(***************************************************************************)
(* frontend/tokenizer.rs                                                   *)
(* Every arm returns [err, cur, push]: the error it returns (an Option),   *)
(* the value of current_index after it, and the tokens it pushes.          *)
(***************************************************************************)
Arm(cur, push) == [err |-> None, cur |-> cur, push |-> push]
ArmErr(e) == [err |-> Some(e), cur |-> 0, push |-> <<>>]

\* The token most arms push: the lexeme is source_code[starting_index..current_index].
SliceTokenLongSpan(kind, sc, start, cur) ==
    Token_new(kind, Slice(sc, start, cur), TextSpan_new(start, cur + 1))
SliceToken(kind, sc, start, cur) ==
    Token_new(kind, Slice(sc, start, cur), TextSpan_new(start, cur))

\* '\0' arm: the lexeme is the literal "\0".
EofTokenEmptySpan(start, cur) ==
    Token_new("Eof", <<NUL>>, TextSpan_new(start, start))
EofToken(start, cur) ==
    Token_new("Eof", <<NUL>>, TextSpan_new(start, cur))

SingleCharKind(c) ==
    CASE c = ":" -> "Colon"
      [] c = "," -> "Comma"
      [] c = "." -> "Dot"
      [] c = "(" -> "OpenParen"
      [] c = ")" -> "CloseParen"
      [] c = "{" -> "OpenBrace"
      [] c = "}" -> "CloseBrace"
      [] c = "+" -> "Plus"
      [] c = "-" -> "Minus"
      [] c = "*" -> "Asterisk"

SingleChars == {":", ",", ".", "(", ")", "{", "}", "+", "-", "*"}

\* The six operator arms: [single kind, second character, double kind].
DoubleCharArm(c) ==
    CASE c = "&" -> [single |-> "Ampersand", second |-> "&", double |-> "DoubleAmpersand"]
      [] c = "|" -> [single |-> "Pipe", second |-> "|", double |-> "DoublePipe"]
      [] c = "=" -> [single |-> "Equal", second |-> "=", double |-> "DoubleEqual"]
      [] c = "!" -> [single |-> "Bang", second |-> "=", double |-> "BangEqual"]
      [] c = ">" -> [single |-> "Greater", second |-> "=", double |-> "GreaterOrEqual"]
      [] c = "<" -> [single |-> "Lesser", second |-> "=", double |-> "LesserOrEqual"]

DoubleCharStarts == {"&", "|", "=", "!", ">", "<"}

\* source_code.get(i).is_some() && source_code[i] == c
GetIs(sc, i, c) == i < Len(sc) /\ sc[i + 1] = c

\* The comment loop: advance while not at '\n' or '\0'.
RECURSIVE skip_comment(_, _)
skip_comment(sc, cur) ==
    IF cur < Len(sc) /\ sc[cur + 1] # "\n" /\ sc[cur + 1] # NUL
    THEN skip_comment(sc, cur + 1)
    ELSE cur

slash_arm(sc, start, cur) ==
    IF GetIs(sc, cur, "/")
    THEN Arm(skip_comment(sc, cur), <<>>)
    ELSE Arm(cur, <<SliceToken("Slash", sc, start, cur)>>)

\* Mutant of double_char_arm: the character after the operator is not looked at.
double_char_arm_no_lookahead(sc, start, cur, c) ==
    Arm(cur, <<SliceToken(DoubleCharArm(c).single, sc, start, cur)>>)

double_char_arm(sc, start, cur, c) ==
    LET a == DoubleCharArm(c) IN
    IF GetIs(sc, cur, a.second)
    THEN Arm(cur + 1, <<SliceToken(a.double, sc, start, cur + 1)>>)
    ELSE Arm(cur, <<SliceToken(a.single, sc, start, cur)>>)

Backslash == "\\"

\* Mutant of scan_string: a backslash escapes the character after it.
RECURSIVE scan_string_escaped(_, _)
scan_string_escaped(sc, cur) ==
    IF sc[cur + 1] = Quote THEN [closed |-> TRUE, cur |-> cur + 1]
    ELSE IF sc[cur + 1] = NUL THEN [closed |-> FALSE, cur |-> cur]
    ELSE IF sc[cur + 1] = Backslash /\ sc[cur + 2] # NUL
    THEN scan_string_escaped(sc, cur + 2)
    ELSE scan_string_escaped(sc, cur + 1)

\* The string loop: [closed, cur]; closed = FALSE when '\0' is met first.
RECURSIVE scan_string(_, _)
scan_string(sc, cur) ==
    IF sc[cur + 1] = Quote THEN [closed |-> TRUE, cur |-> cur + 1]
    ELSE IF sc[cur + 1] = NUL THEN [closed |-> FALSE, cur |-> cur]
    ELSE scan_string(sc, cur + 1)

StringToken(sc, start, cur) ==
    Token_new("String", Slice(sc, start + 1, cur - 1), TextSpan_new(start, cur))

string_arm(sc, start, cur) ==
    LET s == scan_string(sc, cur) IN
    IF s.closed
    THEN Arm(s.cur, <<StringToken(sc, start, s.cur)>>)
    ELSE ArmErr(Error_new("Unterminated string", <<>>, TextSpan_new(start, s.cur)))

RECURSIVE scan_identifier(_, _)
scan_identifier(sc, cur) ==
    IF is_alphanumeric(sc[cur + 1]) \/ sc[cur + 1] = "_"
    THEN scan_identifier(sc, cur + 1)
    ELSE cur

RECURSIVE scan_number(_, _)
scan_number(sc, cur) ==
    IF is_ascii_digit(sc[cur + 1]) \/ sc[cur + 1] = "."
    THEN scan_number(sc, cur + 1)
    ELSE cur

default_arm(sc, start, cur, c) ==
    IF is_alphabetic(c) \/ c = "_"
    THEN LET e == scan_identifier(sc, cur)
             lexeme == Slice(sc, start, e)
         IN Arm(e, <<Token_new(get_lexeme_type(lexeme), lexeme, TextSpan_new(start, e))>>)
    ELSE IF is_ascii_digit(c)
    THEN LET e == scan_number(sc, cur)
         IN Arm(e, <<SliceToken("Number", sc, start, e)>>)
    ELSE ArmErr(Error_new("Unexpected character", <<c>>, TextSpan_new(start, cur)))

\* One iteration of the while loop: current_char was read and current_index advanced to cur.
tokenize_arm(sc, start, cur, c) ==
    CASE is_whitespace(c) -> Arm(cur, <<>>)
      [] c = NUL -> Arm(cur, <<EofToken(start, cur)>>)
      [] c \in SingleChars -> Arm(cur, <<SliceToken(SingleCharKind(c), sc, start, cur)>>)
      [] c = "/" -> slash_arm(sc, start, cur)
      [] c \in DoubleCharStarts -> double_char_arm(sc, start, cur, c)
      [] c = Quote -> string_arm(sc, start, cur)
      [] OTHER -> default_arm(sc, start, cur, c)

RECURSIVE tokenize_loop(_, _, _, _)
tokenize_loop(sc, start, cur, toks) ==
    IF cur < Len(sc)
    THEN LET a == tokenize_arm(sc, start, cur + 1, sc[cur + 1]) IN
         IF IsSome(a.err)
         THEN [ok |-> FALSE, tokens |-> <<>>, error |-> a.err]
         ELSE tokenize_loop(sc, a.cur, a.cur, toks \o a.push)
    ELSE [ok |-> TRUE, tokens |-> toks, error |-> None]

tokenize(source_code) == tokenize_loop(Append(source_code, NUL), 0, 0, <<>>)

(***************************************************************************)
(* Numbers.  A Number (f64) is modelled as a normalised fraction           *)
(* [num, den], den > 0: exact where the f64 arithmetic on the literals of   *)
(* the model is exact.                                                      *)
(***************************************************************************)
Abs(n) == IF n < 0 THEN -n ELSE n

RECURSIVE GCD(_, _)
GCD(a, b) == IF b = 0 THEN a ELSE GCD(b, a % b)

Frac(n, d) ==
    LET g == GCD(Abs(n), Abs(d))
        s == IF d < 0 THEN -1 ELSE 1
    IN [num |-> (s * n) \div g, den |-> (s * d) \div g]

FracAdd(a, b) == Frac(a.num * b.den + b.num * a.den, a.den * b.den)
FracSub(a, b) == Frac(a.num * b.den - b.num * a.den, a.den * b.den)
FracMul(a, b) == Frac(a.num * b.num, a.den * b.den)
FracDiv(a, b) == Frac(a.num * b.den, a.den * b.num)
FracNeg(a) == [num |-> -a.num, den |-> a.den]
FracLess(a, b) == a.num * b.den < b.num * a.den
FracZero == [num |-> 0, den |-> 1]

DigitValue(c) ==
    CASE c = "0" -> 0 [] c = "1" -> 1 [] c = "2" -> 2 [] c = "3" -> 3 [] c = "4" -> 4
      [] c = "5" -> 5 [] c = "6" -> 6 [] c = "7" -> 7 [] c = "8" -> 8 [] c = "9" -> 9

RECURSIVE Pow10(_)
Pow10(k) == IF k = 0 THEN 1 ELSE 10 * Pow10(k - 1)

RECURSIVE DigitsValue(_, _)
DigitsValue(s, acc) ==
    IF s = <<>> THEN acc ELSE DigitsValue(Tail(s), 10 * acc + DigitValue(Head(s)))

\* str::parse::<f64> on a lexeme: Some(value) for digits with at most one '.', and at
\* least one digit; None (an Err) for anything else, e.g. "1.2.3" or "1..".
parse_f64(lexeme) ==
    LET dots == {i \in 1..Len(lexeme) : lexeme[i] = "."}
        digits == SelectSeq(lexeme, LAMBDA c : c \in AsciiDigits)
    IN IF \/ \E i \in 1..Len(lexeme) : lexeme[i] \notin AsciiDigits \cup {"."}
          \/ Cardinality(dots) > 1
          \/ digits = <<>>
       THEN None
       ELSE LET decimals == IF dots = {} THEN 0
                            ELSE Len(lexeme) - (CHOOSE i \in dots : TRUE)
            IN Some(Frac(DigitsValue(digits, 0), Pow10(decimals)))

(***************************************************************************)
(* frontend/ast.rs                                                         *)
(***************************************************************************)
LetStatement_new(keyword, identifier, expression) ==
    [type |-> "Let", keyword |-> keyword, identifier |-> identifier,
     expression |-> expression]

ConstStatement_new(keyword, identifier, expression) ==
    [type |-> "Const", keyword |-> keyword, identifier |-> identifier,
     expression |-> expression]

ExpressionStatement(expression) == [type |-> "Expression", expression |-> expression]

AssignmentExpression_new(identifier, expression) ==
    [type |-> "Assignment", identifier |-> identifier, expression |-> expression]

BinaryExpression_new(left, operator, right) ==
    [type |-> "Binary", left |-> left, operator |-> operator, right |-> right]

UnaryExpression_new(operator, right) ==
    [type |-> "Unary", operator |-> operator, right |-> right]

IdentifierExpression_new(identifier) ==
    [type |-> "Identifier", identifier |-> identifier]

ObjectLiteralExpression_new(open_brace, pairs, close_brace) ==
    [type |-> "Object", open_brace |-> open_brace, pairs |-> pairs,
     close_brace |-> close_brace]

StringLiteralExpression_new(string, v) ==
    [type |-> "String", string |-> string, value |-> v]

NumericLiteralExpression_new(number, v) ==
    [type |-> "Numeric", number |-> number, value |-> v]

BooleanLiteralExpression_new(boolean, v) ==
    [type |-> "Boolean", boolean |-> boolean, value |-> v]

NoneLiteralExpression_new(none) == [type |-> "None", none |-> none]

KeyValuePair_new(key, v) == [key |-> key, value |-> v]

\* AccessExpression is used by the parser (built from the object's identifier token and
\* the property token) and by the evaluator (which evaluates a.object as an expression),
\* but is not declared in ast.rs: the object is held as the identifier expression.
AccessExpression_new(object, property) ==
    [type |-> "Access", object |-> IdentifierExpression_new(object),
     property |-> property]

RECURSIVE text_span(_)
text_span(e) ==
    CASE e.type = "None" -> e.none.text_span
      [] e.type = "Boolean" -> e.boolean.text_span
      [] e.type = "Numeric" -> e.number.text_span
      [] e.type = "String" -> e.string.text_span
      [] e.type = "Object" -> TextSpan_add(e.open_brace.text_span, e.close_brace.text_span)
      [] e.type = "Identifier" -> e.identifier.text_span
      [] e.type = "Access" -> TextSpan_add(text_span(e.object), e.property.text_span)
      [] e.type = "Unary" -> TextSpan_add(e.operator.text_span, text_span(e.right))
      [] e.type = "Binary" -> TextSpan_add(text_span(e.left), text_span(e.right))
      [] e.type = "Assignment" ->
            TextSpan_add(e.identifier.text_span, text_span(e.expression))

(***************************************************************************)
(* frontend/parser.rs                                                      *)
(* A parse function returns [tag, node, index, error]: tag "Ok" with the   *)
(* node and the index consumed until, tag "Err" with the error, or tag      *)
(* "Panic" when the Rust code aborts (unwrap of an Err, index out of range).*)
(***************************************************************************)
ParseOk(node, index) == [tag |-> "Ok", node |-> node, index |-> index, error |-> None]
ParseErr(e) == [tag |-> "Err", node |-> <<>>, index |-> 0, error |-> Some(e)]
\* The two aborts of the parser: tokens[i] with i out of bounds, and unwrap() on an Err.
ParsePanic == [tag |-> "Panic", node |-> <<>>, index |-> 0, error |-> None]
UnwrapPanic ==
    [tag |-> "Panic", node |-> <<>>, index |-> 0,
     error |-> Some("called Result::unwrap() on an Err value")]

InRange(toks, i) == i < Len(toks)
At(toks, i) == toks[i + 1]

token_matches(token_kind, expected_to_be_in) == token_kind \in expected_to_be_in

\* Mutant of expect_to_match: the error carries the span of the token before.
expect_to_match_span_before(toks, i, expected) ==
    IF ~InRange(toks, i) THEN ParsePanic
    ELSE IF At(toks, i).kind = expected
    THEN ParseOk(At(toks, i), i + 1)
    ELSE ParseErr(Error_new("Unexpected token, expected", <<At(toks, i).lexeme, expected>>,
                            At(toks, IF i = 0 THEN 0 ELSE i - 1).text_span))

expect_to_match(toks, i, expected) ==
    IF ~InRange(toks, i) THEN ParsePanic
    ELSE IF At(toks, i).kind = expected
    THEN ParseOk(At(toks, i), i + 1)
    ELSE ParseErr(Error_new("Unexpected token, expected", <<At(toks, i).lexeme, expected>>,
                            At(toks, i).text_span))

\* Mutant of eat_token: the token after the eaten one is skipped too.
eat_token_and_next(toks, i) == ParseOk(At(toks, i), i + 2)

eat_token(toks, i) == ParseOk(At(toks, i), i + 1)

LogicalOperators == {"DoubleAmpersand", "DoublePipe"}
EqualityOperators == {"DoubleEqual", "BangEqual"}
ComparisonOperators == {"Greater", "Lesser", "GreaterOrEqual", "LesserOrEqual"}
AdditiveOperators == {"Plus", "Minus"}
MultiplicativeOperators == {"Asterisk", "Slash"}
UnaryOperators == {"Bang", "Plus", "Minus"}

\* Rust's `let x = f(..)?;` followed by the rest of the function: the Err (or the abort)
\* of the result is returned, otherwise the rest goes on with the result.
Try(result, rest(_)) == IF result.tag # "Ok" THEN result ELSE rest(result)

RECURSIVE parse_expression(_, _)
RECURSIVE parse_assignment_expression(_, _)
RECURSIVE parse_binary_expression(_, _)
RECURSIVE parse_binary_logical_expression(_, _)
RECURSIVE binary_logical_loop(_, _, _)
RECURSIVE parse_binary_equality_expression(_, _)
RECURSIVE binary_equality_loop(_, _, _)
RECURSIVE parse_binary_comparison_expression(_, _)
RECURSIVE binary_comparison_loop(_, _, _)
RECURSIVE parse_binary_additive_expression(_, _)
RECURSIVE binary_additive_loop(_, _, _)
RECURSIVE parse_binary_multiplicative_expression(_, _)
RECURSIVE binary_multiplicative_loop(_, _, _)
RECURSIVE parse_unary_expression(_, _)
RECURSIVE parse_primary_expression(_, _)
RECURSIVE parse_object_pairs(_, _, _, _)
RECURSIVE parse_key_value_pair(_, _)

parse_expression(toks, i) == parse_assignment_expression(toks, i)

parse_assignment_expression(toks, i) ==
    IF ~InRange(toks, i) THEN ParsePanic
    ELSE IF /\ InRange(toks, i + 1)
            /\ At(toks, i).kind = "Identifier"
            /\ At(toks, i + 1).kind = "Equal"
    THEN Try(expect_to_match(toks, i, "Identifier"), LAMBDA identifier :
         Try(expect_to_match(toks, identifier.index, "Equal"), LAMBDA equal :
         Try(parse_assignment_expression(toks, equal.index), LAMBDA expression :
         ParseOk(AssignmentExpression_new(identifier.node, expression.node),
                 expression.index))))
    ELSE parse_binary_expression(toks, i)

parse_binary_expression(toks, i) == parse_binary_logical_expression(toks, i)

\* The while loop of a binary level: left is the expression built so far.
binary_logical_loop(toks, left, i) ==
    IF ~InRange(toks, i) THEN ParsePanic
    ELSE IF token_matches(At(toks, i).kind, LogicalOperators)
    THEN Try(parse_binary_logical_expression(toks, i + 1), LAMBDA right :
         binary_logical_loop(
             toks, BinaryExpression_new(left, At(toks, i), right.node), right.index))
    ELSE ParseOk(left, i)

parse_binary_logical_expression(toks, i) ==
    Try(parse_binary_equality_expression(toks, i), LAMBDA left :
    binary_logical_loop(toks, left.node, left.index))

binary_equality_loop(toks, left, i) ==
    IF ~InRange(toks, i) THEN ParsePanic
    ELSE IF token_matches(At(toks, i).kind, EqualityOperators)
    THEN Try(parse_binary_equality_expression(toks, i + 1), LAMBDA right :
         binary_equality_loop(
             toks, BinaryExpression_new(left, At(toks, i), right.node), right.index))
    ELSE ParseOk(left, i)

parse_binary_equality_expression(toks, i) ==
    Try(parse_binary_comparison_expression(toks, i), LAMBDA left :
    binary_equality_loop(toks, left.node, left.index))

binary_comparison_loop(toks, left, i) ==
    IF ~InRange(toks, i) THEN ParsePanic
    ELSE IF token_matches(At(toks, i).kind, ComparisonOperators)
    THEN Try(parse_binary_comparison_expression(toks, i + 1), LAMBDA right :
         binary_comparison_loop(
             toks, BinaryExpression_new(left, At(toks, i), right.node), right.index))
    ELSE ParseOk(left, i)

parse_binary_comparison_expression(toks, i) ==
    Try(parse_binary_additive_expression(toks, i), LAMBDA left :
    binary_comparison_loop(toks, left.node, left.index))

\* Mutant: the right operand is parsed one level down, so the loop associates to the left.
binary_additive_loop_left(toks, left, i) ==
    IF ~InRange(toks, i) THEN ParsePanic
    ELSE IF token_matches(At(toks, i).kind, AdditiveOperators)
    THEN Try(parse_binary_multiplicative_expression(toks, i + 1), LAMBDA right :
         binary_additive_loop(
             toks, BinaryExpression_new(left, At(toks, i), right.node), right.index))
    ELSE ParseOk(left, i)

binary_additive_loop(toks, left, i) ==
    IF ~InRange(toks, i) THEN ParsePanic
    ELSE IF token_matches(At(toks, i).kind, AdditiveOperators)
    THEN Try(parse_binary_additive_expression(toks, i + 1), LAMBDA right :
         binary_additive_loop(
             toks, BinaryExpression_new(left, At(toks, i), right.node), right.index))
    ELSE ParseOk(left, i)

parse_binary_additive_expression(toks, i) ==
    Try(parse_binary_multiplicative_expression(toks, i), LAMBDA left :
    binary_additive_loop(toks, left.node, left.index))

\* Mutant: '+' and '-' are taken at the multiplicative level too (one flat level).
binary_multiplicative_loop_flat(toks, left, i) ==
    IF ~InRange(toks, i) THEN ParsePanic
    ELSE IF token_matches(At(toks, i).kind, MultiplicativeOperators \cup AdditiveOperators)
    THEN Try(parse_binary_multiplicative_expression(toks, i + 1), LAMBDA right :
         binary_multiplicative_loop(
             toks, BinaryExpression_new(left, At(toks, i), right.node), right.index))
    ELSE ParseOk(left, i)

binary_multiplicative_loop(toks, left, i) ==
    IF ~InRange(toks, i) THEN ParsePanic
    ELSE IF token_matches(At(toks, i).kind, MultiplicativeOperators)
    THEN Try(parse_binary_multiplicative_expression(toks, i + 1), LAMBDA right :
         binary_multiplicative_loop(
             toks, BinaryExpression_new(left, At(toks, i), right.node), right.index))
    ELSE ParseOk(left, i)

parse_binary_multiplicative_expression(toks, i) ==
    Try(parse_unary_expression(toks, i), LAMBDA left :
    binary_multiplicative_loop(toks, left.node, left.index))

parse_unary_expression(toks, i) ==
    IF ~InRange(toks, i) THEN ParsePanic
    ELSE IF token_matches(At(toks, i).kind, UnaryOperators)
    THEN Try(eat_token(toks, i), LAMBDA operator :
         Try(parse_unary_expression(toks, operator.index), LAMBDA right :
         ParseOk(UnaryExpression_new(operator.node, right.node), right.index)))
    ELSE parse_primary_expression(toks, i)

parse_key_value_pair(toks, i) ==
    Try(expect_to_match(toks, i, "Identifier"), LAMBDA key :
    Try(expect_to_match(toks, key.index, "Colon"), LAMBDA colon :
    Try(parse_expression(toks, colon.index), LAMBDA v :
    ParseOk(KeyValuePair_new(key.node, v.node), v.index))))

\* Mutant of parse_object_pairs: the loop condition reads the token at global, so that a
\* `}` right after a comma ends the loop.
RECURSIVE parse_object_pairs_at_global(_, _, _, _)
parse_object_pairs_at_global(toks, first, global, pairs) ==
    IF ~InRange(toks, global) THEN ParsePanic
    ELSE IF At(toks, global).kind # "CloseBrace"
    THEN Try(parse_key_value_pair(toks, global), LAMBDA pair :
         IF ~InRange(toks, pair.index) THEN ParsePanic
         ELSE IF At(toks, pair.index).kind = "CloseBrace"
         THEN ParseOk(Append(pairs, pair.node), pair.index)
         ELSE Try(expect_to_match(toks, pair.index, "Comma"), LAMBDA comma :
              parse_object_pairs_at_global(toks, first, comma.index,
                                           Append(pairs, pair.node))))
    ELSE ParseOk(pairs, global)

\* The while loop of the OpenBrace arm.  Its condition reads the token right after the
\* open brace (first) on every iteration; global is global_current_token_index.  The
\* result's node is the pairs, its index the value of global after the loop.
parse_object_pairs(toks, first, global, pairs) ==
    IF ~InRange(toks, first) THEN ParsePanic
    ELSE IF At(toks, first).kind # "CloseBrace"
    THEN Try(parse_key_value_pair(toks, global), LAMBDA pair :
         IF ~InRange(toks, pair.index) THEN ParsePanic
         ELSE IF At(toks, pair.index).kind = "CloseBrace"
         THEN ParseOk(Append(pairs, pair.node), pair.index)
         ELSE Try(expect_to_match(toks, pair.index, "Comma"), LAMBDA comma :
              parse_object_pairs(toks, first, comma.index, Append(pairs, pair.node))))
    ELSE ParseOk(pairs, global)

\* lexeme.parse().unwrap(): the abort when the conversion fails.
unwrap_number(toks, i, parsed) ==
    IF IsSome(parsed)
    THEN ParseOk(NumericLiteralExpression_new(At(toks, i), Unwrap(parsed)), i + 1)
    ELSE UnwrapPanic

\* TokenKind::Number arm
number_arm(toks, i) == unwrap_number(toks, i, parse_f64(At(toks, i).lexeme))

open_paren_arm(toks, i) ==
    Try(expect_to_match(toks, i, "OpenParen"), LAMBDA open :
    Try(parse_expression(toks, open.index), LAMBDA expression :
    Try(expect_to_match(toks, expression.index, "CloseParen"), LAMBDA close :
    ParseOk(expression.node, close.index))))

open_brace_arm(toks, i) ==
    Try(expect_to_match(toks, i, "OpenBrace"), LAMBDA open_brace :
    Try(parse_object_pairs(toks, open_brace.index, open_brace.index, <<>>), LAMBDA pairs :
    Try(expect_to_match(toks, pairs.index, "CloseBrace"), LAMBDA close_brace :
    ParseOk(ObjectLiteralExpression_new(open_brace.node, pairs.node, close_brace.node),
            close_brace.index))))

identifier_arm_without_lookahead(toks, i) ==
    ParseOk(IdentifierExpression_new(At(toks, i)), i + 1)

identifier_arm(toks, i) ==
    IF InRange(toks, i + 1) /\ At(toks, i + 1).kind = "Dot"
    THEN Try(expect_to_match(toks, i, "Identifier"), LAMBDA object :
         Try(expect_to_match(toks, object.index, "Dot"), LAMBDA dot :
         Try(expect_to_match(toks, dot.index, "Identifier"), LAMBDA property :
         ParseOk(AccessExpression_new(object.node, property.node), property.index))))
    ELSE ParseOk(IdentifierExpression_new(At(toks, i)), i + 1)

\* The match on the kind of the current token.
primary_arm(toks, i, kind) ==
    CASE kind = "OpenParen" -> open_paren_arm(toks, i)
      [] kind = "None" -> ParseOk(NoneLiteralExpression_new(At(toks, i)), i + 1)
      [] kind = "True" -> ParseOk(BooleanLiteralExpression_new(At(toks, i), TRUE), i + 1)
      [] kind = "False" -> ParseOk(BooleanLiteralExpression_new(At(toks, i), FALSE), i + 1)
      [] kind = "Number" -> number_arm(toks, i)
      [] kind = "String" ->
            ParseOk(StringLiteralExpression_new(At(toks, i), At(toks, i).lexeme), i + 1)
      [] kind = "OpenBrace" -> open_brace_arm(toks, i)
      [] kind = "Identifier" -> identifier_arm(toks, i)
      [] OTHER -> ParseErr(Error_new("Unexpected token", <<At(toks, i).lexeme>>,
                                     At(toks, i).text_span))

parse_primary_expression(toks, i) ==
    IF ~InRange(toks, i) THEN ParsePanic ELSE primary_arm(toks, i, At(toks, i).kind)

parse_let_statement(toks, i) ==
    Try(expect_to_match(toks, i, "Let"), LAMBDA keyword :
    Try(expect_to_match(toks, keyword.index, "Identifier"), LAMBDA identifier :
    Try(expect_to_match(toks, identifier.index, "Equal"), LAMBDA equal :
    Try(parse_expression(toks, equal.index), LAMBDA expression :
    ParseOk(LetStatement_new(keyword.node, identifier.node, expression.node),
            expression.index)))))

parse_const_statement(toks, i) ==
    Try(expect_to_match(toks, i, "Const"), LAMBDA keyword :
    Try(expect_to_match(toks, keyword.index, "Identifier"), LAMBDA identifier :
    Try(expect_to_match(toks, identifier.index, "Equal"), LAMBDA equal :
    Try(parse_expression(toks, equal.index), LAMBDA expression :
    ParseOk(ConstStatement_new(keyword.node, identifier.node, expression.node),
            expression.index)))))

parse_statement(toks, i) ==
    CASE At(toks, i).kind = "Let" -> parse_let_statement(toks, i)
      [] At(toks, i).kind = "Const" -> parse_const_statement(toks, i)
      [] OTHER ->
            Try(parse_expression(toks, i), LAMBDA expression :
            ParseOk(ExpressionStatement(expression.node), expression.index))

\* The while loop of parse: prog is the program built so far.
RECURSIVE parse_loop(_, _, _)
parse_loop(toks, i, prog) ==
    IF i < Len(toks) /\ At(toks, i).kind # "Eof"
    THEN Try(parse_statement(toks, i), LAMBDA statement :
         parse_loop(toks, statement.index, Append(prog, statement.node)))
    ELSE ParseOk(prog, i)

parse(toks) == parse_loop(toks, 0, <<>>)

(***************************************************************************)
(* runtime/types.rs: Value                                                 *)
(***************************************************************************)
Value_None == [type |-> "None"]
Value_Boolean(b) == [type |-> "Boolean", boolean |-> b]
Value_Number(n) == [type |-> "Number", number |-> n]
Value_String(s) == [type |-> "String", string |-> s]
\* o is the HashMap<String, Box<Value>>: a function from keys (lexemes) to Values.
Value_Object(o) == [type |-> "Object", object |-> o]

\* Mutant of Value_eq: only the variants are compared.
Value_eq_by_type(l, r) == l.type = r.type

\* derive(PartialEq) on Value: equal variants with equal contents.
RECURSIVE Value_eq(_, _)
Value_eq(l, r) ==
    /\ l.type = r.type
    /\ CASE l.type = "None" -> TRUE
         [] l.type = "Boolean" -> l.boolean = r.boolean
         [] l.type = "Number" -> l.number = r.number
         [] l.type = "String" -> l.string = r.string
         [] l.type = "Object" ->
                /\ DOMAIN l.object = DOMAIN r.object
                /\ \A k \in DOMAIN l.object : Value_eq(l.object[k], r.object[k])

\* HashMap::insert
Insert(map, key, v) ==
    [k \in DOMAIN map \cup {key} |-> IF k = key THEN v ELSE map[k]]

EmptyMap == [k \in {} |-> <<>>]

\* Mutant of from_iter: a key keeps the value of its first pair.
RECURSIVE from_iter_keep_first(_, _)
from_iter_keep_first(pairs, map) ==
    IF pairs = <<>> THEN map
    ELSE IF Head(pairs)[1] \in DOMAIN map THEN from_iter_keep_first(Tail(pairs), map)
    ELSE from_iter_keep_first(Tail(pairs), Insert(map, Head(pairs)[1], Head(pairs)[2]))

\* HashMap::from_iter over a Vec of (key, value): later pairs overwrite earlier ones.
RECURSIVE from_iter(_, _)
from_iter(pairs, map) ==
    IF pairs = <<>> THEN map
    ELSE from_iter(Tail(pairs), Insert(map, Head(pairs)[1], Head(pairs)[2]))

(***************************************************************************)
(* runtime/builtin.rs                                                      *)
(***************************************************************************)
Name_fns == <<"f", "n", "s">>
Name_math == <<"m", "a", "t", "h">>
Name_version == <<"v", "e", "r", "s", "i", "o", "n">>
Name_pi == <<"p", "i">>
Name_e == <<"e">>

\* std::f64::consts::PI and E, to five decimals.
PI == Frac(314159, 100000)
E == Frac(271828, 100000)

get_builtin ==
    << <<Name_fns,
         Value_Object(from_iter(
             << <<Name_version, Value_String(<<"0", ".", "0", ".", "1">>)>> >>, EmptyMap))>>,
       <<Name_math,
         Value_Object(from_iter(
             << <<Name_pi, Value_Number(PI)>>, <<Name_e, Value_Number(E)>> >>, EmptyMap))>> >>

(***************************************************************************)
(* runtime/environment.rs                                                  *)
(* An Environment is [parent, variables]: parent an Option<Environment>,   *)
(* variables a function from names to [value, is_constant].                *)
(***************************************************************************)
Binding(v, is_const) == [value |-> v, is_constant |-> is_const]

RECURSIVE seed(_, _)
seed(builtins, map) ==
    IF builtins = <<>> THEN map
    ELSE seed(Tail(builtins),
              Insert(map, Head(builtins)[1], Binding(Head(builtins)[2], TRUE)))

Environment_new(parent_env) ==
    [parent |-> parent_env, variables |-> seed(get_builtin, EmptyMap)]

RECURSIVE is_constant(_, _)
is_constant(env, identifier) ==
    IF identifier \in DOMAIN env.variables
    THEN Some(env.variables[identifier].is_constant)
    ELSE IF IsSome(env.parent) THEN is_constant(Unwrap(env.parent), identifier)
    ELSE None

RECURSIVE access(_, _)
access(env, identifier) ==
    IF identifier \in DOMAIN env.variables
    THEN Some(env.variables[identifier].value)
    ELSE IF IsSome(env.parent) THEN access(Unwrap(env.parent), identifier)
    ELSE None

\* Mutant of define: the binding is written into the frame that already holds the name.
RECURSIVE define_where_bound(_, _, _, _)
define_where_bound(env, identifier, v, is_const) ==
    IF identifier \notin DOMAIN env.variables /\ IsSome(env.parent)
            /\ IsSome(access(Unwrap(env.parent), identifier))
    THEN [env EXCEPT !.parent =
                Some(define_where_bound(Unwrap(env.parent), identifier, v, is_const))]
    ELSE [env EXCEPT !.variables = Insert(env.variables, identifier, Binding(v, is_const))]

define(env, identifier, v, is_const) ==
    [env EXCEPT !.variables = Insert(env.variables, identifier, Binding(v, is_const))]

(***************************************************************************)
(* runtime/evaluator.rs                                                    *)
(* evaluate_expression returns [tag, value, environment, error]: tag "Ok"  *)
(* with the value and the environment as the expression left it, or tag     *)
(* "Err" with the error.                                                    *)
(***************************************************************************)
EvalOk(v, env) == [tag |-> "Ok", value |-> v, environment |-> env, error |-> None]
EvalErr(e) == [tag |-> "Err", value |-> Value_None, environment |-> <<>>, error |-> Some(e)]

\* Mutant: the quotient is taken without the test for zero (an infinite value).
divide_unchecked(left, right, span) ==
    IF right.num = 0 THEN Some(Value_Number([num |-> 1, den |-> 0]))
    ELSE Some(Value_Number(FracDiv(left, right)))

\* (TokenKind::Slash, Number, Number): None stands for the "Can't divide by 0" error.
divide(left, right, span) ==
    IF right = FracZero THEN None
    ELSE Some(Value_Number(FracDiv(left, right)))

\* Mutant of apply_binary: `<` also compares two strings, by length.
apply_binary_coercing(operator, left, right, span) ==
    LET numbers == left.type = "Number" /\ right.type = "Number"
        booleans == left.type = "Boolean" /\ right.type = "Boolean"
        l == left.number
        r == right.number
    IN
    CASE operator = "Plus" /\ left.type = "String" /\ right.type = "String" ->
            EvalOk(Value_String(left.string \o right.string), <<>>)
      [] operator = "Plus" /\ numbers -> EvalOk(Value_Number(FracAdd(l, r)), <<>>)
      [] operator = "Minus" /\ numbers -> EvalOk(Value_Number(FracSub(l, r)), <<>>)
      [] operator = "Asterisk" /\ numbers -> EvalOk(Value_Number(FracMul(l, r)), <<>>)
      [] operator = "Slash" /\ numbers ->
            LET q == divide(l, r, span) IN
            IF IsSome(q) THEN EvalOk(Unwrap(q), <<>>)
            ELSE EvalErr(Error_new("Can't divide by 0", <<>>, span))
      [] operator = "Greater" /\ numbers -> EvalOk(Value_Boolean(FracLess(r, l)), <<>>)
      [] operator = "Lesser" /\ numbers -> EvalOk(Value_Boolean(FracLess(l, r)), <<>>)
      [] operator = "GreaterOrEqual" /\ numbers ->
            EvalOk(Value_Boolean(~FracLess(l, r)), <<>>)
      [] operator = "LesserOrEqual" /\ numbers ->
            EvalOk(Value_Boolean(~FracLess(r, l)), <<>>)
      [] operator = "BangEqual" -> EvalOk(Value_Boolean(~Value_eq(left, right)), <<>>)
      [] operator = "DoubleEqual" -> EvalOk(Value_Boolean(Value_eq(left, right)), <<>>)
      [] operator = "Lesser" /\ left.type = "String" /\ right.type = "String" ->
            EvalOk(Value_Boolean(Len(left.string) < Len(right.string)), <<>>)
      [] operator = "DoubleAmpersand" /\ booleans ->
            EvalOk(Value_Boolean(left.boolean /\ right.boolean), <<>>)
      [] operator = "DoublePipe" /\ booleans ->
            EvalOk(Value_Boolean(left.boolean \/ right.boolean), <<>>)
      [] OTHER -> EvalErr(Error_new("Can't use with and", <<operator, left, right>>, span))

\* The match on (operator, left, right) of the Binary arm.
apply_binary(operator, left, right, span) ==
    LET numbers == left.type = "Number" /\ right.type = "Number"
        booleans == left.type = "Boolean" /\ right.type = "Boolean"
        l == left.number
        r == right.number
    IN
    CASE operator = "Plus" /\ left.type = "String" /\ right.type = "String" ->
            EvalOk(Value_String(left.string \o right.string), <<>>)
      [] operator = "Plus" /\ numbers -> EvalOk(Value_Number(FracAdd(l, r)), <<>>)
      [] operator = "Minus" /\ numbers -> EvalOk(Value_Number(FracSub(l, r)), <<>>)
      [] operator = "Asterisk" /\ numbers -> EvalOk(Value_Number(FracMul(l, r)), <<>>)
      [] operator = "Slash" /\ numbers ->
            LET q == divide(l, r, span) IN
            IF IsSome(q) THEN EvalOk(Unwrap(q), <<>>)
            ELSE EvalErr(Error_new("Can't divide by 0", <<>>, span))
      [] operator = "Greater" /\ numbers -> EvalOk(Value_Boolean(FracLess(r, l)), <<>>)
      [] operator = "Lesser" /\ numbers -> EvalOk(Value_Boolean(FracLess(l, r)), <<>>)
      [] operator = "GreaterOrEqual" /\ numbers ->
            EvalOk(Value_Boolean(~FracLess(l, r)), <<>>)
      [] operator = "LesserOrEqual" /\ numbers ->
            EvalOk(Value_Boolean(~FracLess(r, l)), <<>>)
      [] operator = "BangEqual" -> EvalOk(Value_Boolean(~Value_eq(left, right)), <<>>)
      [] operator = "DoubleEqual" -> EvalOk(Value_Boolean(Value_eq(left, right)), <<>>)
      [] operator = "DoubleAmpersand" /\ booleans ->
            EvalOk(Value_Boolean(left.boolean /\ right.boolean), <<>>)
      [] operator = "DoublePipe" /\ booleans ->
            EvalOk(Value_Boolean(left.boolean \/ right.boolean), <<>>)
      [] OTHER -> EvalErr(Error_new("Can't use with and", <<operator, left, right>>, span))

\* The match on (operator, right) of the Unary arm.
\* Mutant of apply_unary: `+` is the identity on a value of any type.
apply_unary_plus_any(operator, right, span) ==
    CASE operator = "Bang" /\ right.type = "Boolean" ->
            EvalOk(Value_Boolean(~right.boolean), <<>>)
      [] operator = "Plus" -> EvalOk(right, <<>>)
      [] operator = "Minus" /\ right.type = "Number" ->
            EvalOk(Value_Number(FracNeg(right.number)), <<>>)
      [] OTHER -> EvalErr(Error_new("Can't use with", <<operator, right>>, span))

apply_unary(operator, right, span) ==
    CASE operator = "Bang" /\ right.type = "Boolean" ->
            EvalOk(Value_Boolean(~right.boolean), <<>>)
      [] operator = "Plus" /\ right.type = "Number" -> EvalOk(Value_Number(right.number), <<>>)
      [] operator = "Minus" /\ right.type = "Number" ->
            EvalOk(Value_Number(FracNeg(right.number)), <<>>)
      [] OTHER -> EvalErr(Error_new("Can't use with", <<operator, right>>, span))

WithEnv(result, env) ==
    IF result.tag = "Ok" THEN [result EXCEPT !.environment = env] ELSE result

RECURSIVE evaluate_expression(_, _)
RECURSIVE evaluate_pairs(_, _, _)
RECURSIVE evaluate_binary(_, _)
RECURSIVE evaluate_assignment(_, _)

\* The for loop of the Object arm: done holds the (key, value) pairs evaluated so far.
evaluate_pairs(pairs, done, env) ==
    IF pairs = <<>> THEN EvalOk(Value_Object(from_iter(done, EmptyMap)), env)
    ELSE Try(evaluate_expression(Head(pairs).value, env), LAMBDA v :
         evaluate_pairs(Tail(pairs), Append(done, <<Head(pairs).key.lexeme, v.value>>),
                        v.environment))

\* Mutant: the right operand of && and || is evaluated only when the left one does not
\* already decide the result.
evaluate_binary_short_circuit(b, env) ==
    Try(evaluate_expression(b.left, env), LAMBDA left :
    IF /\ left.value.type = "Boolean"
       /\ \/ b.operator.kind = "DoubleAmpersand" /\ ~left.value.boolean
          \/ b.operator.kind = "DoublePipe" /\ left.value.boolean
    THEN EvalOk(left.value, left.environment)
    ELSE Try(evaluate_expression(b.right, left.environment), LAMBDA right :
         WithEnv(apply_binary(b.operator.kind, left.value, right.value, text_span(b)),
                 right.environment)))

\* Expression::Binary arm
evaluate_binary(b, env) ==
    Try(evaluate_expression(b.left, env), LAMBDA left :
    Try(evaluate_expression(b.right, left.environment), LAMBDA right :
    WithEnv(apply_binary(b.operator.kind, left.value, right.value, text_span(b)),
            right.environment)))

\* Mutant of assign_checked: the value is evaluated before the target is checked.
assign_checked_value_first(a, env, constness) ==
    Try(evaluate_expression(a.expression, env), LAMBDA v :
    IF IsSome(constness)
    THEN IF Unwrap(constness)
         THEN EvalErr(Error_new("Can't assign the variable as it's a constant",
                                <<a.identifier.lexeme>>, text_span(a)))
         ELSE EvalOk(v.value, define(v.environment, a.identifier.lexeme, v.value, FALSE))
    ELSE EvalErr(Error_new("Can't assign to the variable as it's not defined",
                           <<a.identifier.lexeme>>, text_span(a))))

\* The branches of the Assignment arm on environment.is_constant(identifier).
assign_checked(a, env, constness) ==
    IF IsSome(constness)
    THEN IF Unwrap(constness)
         THEN EvalErr(Error_new("Can't assign the variable as it's a constant",
                                <<a.identifier.lexeme>>, text_span(a)))
         ELSE Try(evaluate_expression(a.expression, env), LAMBDA v :
              EvalOk(v.value, define(v.environment, a.identifier.lexeme, v.value, FALSE)))
    ELSE EvalErr(Error_new("Can't assign to the variable as it's not defined",
                           <<a.identifier.lexeme>>, text_span(a)))

\* Expression::Assignment arm
evaluate_assignment(a, env) == assign_checked(a, env, is_constant(env, a.identifier.lexeme))

\* Mutant of evaluate_access: a property the object lacks reads as none.
evaluate_access_or_none(a, env) ==
    Try(evaluate_expression(a.object, env), LAMBDA object :
    IF object.value.type = "Object"
    THEN IF a.property.lexeme \in DOMAIN object.value.object
         THEN EvalOk(object.value.object[a.property.lexeme], object.environment)
         ELSE EvalOk(Value_None, object.environment)
    ELSE EvalErr(Error_new("Can't access property of as it's not accessible",
                           <<object.value>>, text_span(a))))

\* Expression::Access arm
evaluate_access(a, env) ==
    Try(evaluate_expression(a.object, env), LAMBDA object :
    IF object.value.type = "Object"
    THEN IF a.property.lexeme \in DOMAIN object.value.object
         THEN EvalOk(object.value.object[a.property.lexeme], object.environment)
         ELSE EvalErr(Error_new("Can't access the property as it's not defined",
                                <<a.property.lexeme>>, text_span(a)))
    ELSE EvalErr(Error_new("Can't access property of as it's not accessible",
                           <<object.value>>, text_span(a))))

\* The branches of the Identifier arm on environment.access(identifier).
accessed(e, env, v) ==
    IF IsSome(v) THEN EvalOk(Unwrap(v), env)
    ELSE EvalErr(Error_new("Can't access the variable as it's not defined",
                           <<e.identifier.lexeme>>, text_span(e)))

evaluate_expression(e, env) ==
    CASE e.type = "None" -> EvalOk(Value_None, env)
      [] e.type = "Boolean" -> EvalOk(Value_Boolean(e.value), env)
      [] e.type = "Numeric" -> EvalOk(Value_Number(e.value), env)
      [] e.type = "String" -> EvalOk(Value_String(e.value), env)
      [] e.type = "Object" -> evaluate_pairs(e.pairs, <<>>, env)
      [] e.type = "Access" -> evaluate_access(e, env)
      [] e.type = "Identifier" -> accessed(e, env, access(env, e.identifier.lexeme))
      [] e.type = "Unary" ->
            Try(evaluate_expression(e.right, env), LAMBDA right :
            WithEnv(apply_unary(e.operator.kind, right.value, text_span(e)),
                    right.environment))
      [] e.type = "Binary" -> evaluate_binary(e, env)
      [] e.type = "Assignment" -> evaluate_assignment(e, env)

\* Mutant of evaluate_let_statement: a name bound as a constant cannot be bound again.
evaluate_let_statement_keeping_constants(statement, env) ==
    IF is_constant(env, statement.identifier.lexeme) = Some(TRUE)
    THEN EvalErr(Error_new("Can't assign the variable as it's a constant",
                           <<statement.identifier.lexeme>>, statement.identifier.text_span))
    ELSE Try(evaluate_expression(statement.expression, env), LAMBDA v :
         EvalOk(Value_None,
                define(v.environment, statement.identifier.lexeme, v.value, FALSE)))

evaluate_let_statement(statement, env) ==
    Try(evaluate_expression(statement.expression, env), LAMBDA v :
    EvalOk(Value_None, define(v.environment, statement.identifier.lexeme, v.value, FALSE)))

evaluate_const_statement(statement, env) ==
    Try(evaluate_expression(statement.expression, env), LAMBDA v :
    EvalOk(Value_None, define(v.environment, statement.identifier.lexeme, v.value, TRUE)))

evaluate_statement(statement, env) ==
    CASE statement.type = "Let" -> evaluate_let_statement(statement, env)
      [] statement.type = "Const" -> evaluate_const_statement(statement, env)
      [] statement.type = "Expression" -> evaluate_expression(statement.expression, env)

\* Mutant of evaluate_loop: a failing statement does not stop the loop; the error of the
\* last statement that failed is the result.
RECURSIVE evaluate_loop_keep_going(_, _, _)
LaterError(r, later) == IF later.tag = "Ok" THEN r ELSE later
KeepGoing(r, rest, v, env) ==
    IF r.tag = "Ok" THEN evaluate_loop_keep_going(rest, r.value, r.environment)
    ELSE LaterError(r, evaluate_loop_keep_going(rest, v, env))
evaluate_loop_keep_going(statements, v, env) ==
    IF statements = <<>> THEN EvalOk(v, env)
    ELSE KeepGoing(evaluate_statement(Head(statements), env), Tail(statements), v, env)

\* The for loop of evaluate.
RECURSIVE evaluate_loop(_, _, _)
evaluate_loop(statements, v, env) ==
    IF statements = <<>> THEN EvalOk(v, env)
    ELSE Try(evaluate_statement(Head(statements), env), LAMBDA r :
         evaluate_loop(Tail(statements), r.value, r.environment))

evaluate(prog, parent_env) == evaluate_loop(prog, Value_None, Environment_new(parent_env))

(***************************************************************************)
(* Source texts                                                            *)
(***************************************************************************)
MaxSourceLen == 3
MaxChain == 2

RECURSIVE Words(_)
\* The words joined by single spaces.
Words(ws) ==
    IF ws = <<>> THEN <<>>
    ELSE IF Len(ws) = 1 THEN ws[1]
    ELSE ws[1] \o <<" ">> \o Words(Tail(ws))

KwLet == <<"l", "e", "t">>
KwConst == <<"c", "o", "n", "s", "t">>
KwTrue == <<"t", "r", "u", "e">>
KwFalse == <<"f", "a", "l", "s", "e">>
Eq == <<"=">>

\* The source text of each binary operator.
OperatorText(kind) ==
    CASE kind = "DoubleAmpersand" -> <<"&", "&">>
      [] kind = "DoublePipe" -> <<"|", "|">>
      [] kind = "DoubleEqual" -> <<"=", "=">>
      [] kind = "BangEqual" -> <<"!", "=">>
      [] kind = "Greater" -> <<">">>
      [] kind = "Lesser" -> <<"<">>
      [] kind = "GreaterOrEqual" -> <<">", "=">>
      [] kind = "LesserOrEqual" -> <<"<", "=">>
      [] kind = "Plus" -> <<"+">>
      [] kind = "Minus" -> <<"-">>
      [] kind = "Asterisk" -> <<"*">>
      [] kind = "Slash" -> <<"/">>
      [] kind = "Bang" -> <<"!">>

BinaryOperators ==
    LogicalOperators \cup EqualityOperators \cup ComparisonOperators
        \cup AdditiveOperators \cup MultiplicativeOperators

\* The binary levels of the parser, loosest first.
Level(kind) ==
    CASE kind \in LogicalOperators -> 1
      [] kind \in EqualityOperators -> 2
      [] kind \in ComparisonOperators -> 3
      [] kind \in AdditiveOperators -> 4
      [] kind \in MultiplicativeOperators -> 5

\* Literals with the Value they denote.
Lit(text, v) == [text |-> text, value |-> v]
Literals ==
    {Lit(<<"1">>, Value_Number(Frac(1, 1))),
     Lit(<<"2", ".", "5">>, Value_Number(Frac(5, 2))),
     Lit(KwTrue, Value_Boolean(TRUE)),
     Lit(<<Quote, "s", Quote>>, Value_String(<<"s">>))}

Name_a == <<"a">>
Name_b == <<"b">>
Name_c == <<"c">>
Name_u == <<"u">>
Name_wip == <<"w", "i", "p">>
BoundNames == {Name_a, Name_fns}
Seven == <<"7">>

\* `let x = v`, `const x = v`, `x`, `x = w`, `x = w x`, `const x = v x = w`
LetLine(x, v) == Words(<<KwLet, x, Eq, v>>)
ConstLine(x, v) == Words(<<KwConst, x, Eq, v>>)
ReadLine(x) == x
AssignLine(x, w) == Words(<<x, Eq, w>>)
AssignReadLine(x, w) == Words(<<x, Eq, w, x>>)
ConstAssignLine(x, v, w) == Words(<<KwConst, x, Eq, v, x, Eq, w>>)

BindingLines ==
    {LetLine(x, l.text) : x \in BoundNames, l \in Literals}
        \cup {ConstLine(x, l.text) : x \in BoundNames, l \in Literals}
        \cup {ConstAssignLine(x, l.text, Seven) : x \in BoundNames, l \in Literals}

ChainLines ==
    {ReadLine(x) : x \in BoundNames}
        \cup {AssignLine(x, Seven) : x \in BoundNames}
        \cup {AssignReadLine(x, Seven) : x \in BoundNames}
        \cup {AssignLine(Name_b, Seven), Seven}

\* Binding a name again: `k1 x = 1 k2 x = 2` followed by a read `x` or by `x = 7`, and
\* the second binding alone (followed by the same) for a chained evaluation; k1 and k2
\* are `let` or `const`.  `k x = u` binds x to an expression that fails.
Keywords == {KwLet, KwConst}
BindLine(k, x, v) == Words(<<k, x, Eq, v>>)
Uses(x) == {ReadLine(x), AssignLine(x, Seven)}
RebindLine(k1, k2, x, use) == Words(<<BindLine(k1, x, <<"1">>), BindLine(k2, x, <<"2">>), use>>)
BindUseLine(k, x, use) == Words(<<BindLine(k, x, <<"2">>), use>>)
RebindFirstLines ==
    {BindLine(k, x, <<"1">>) : k \in Keywords, x \in BoundNames}
        \cup UNION {{RebindLine(k1, k2, x, use) : use \in Uses(x)} :
                        k1 \in Keywords, k2 \in Keywords, x \in BoundNames}
RebindChainLines ==
    UNION {{BindUseLine(k, x, use) : use \in Uses(x)} : k \in Keywords, x \in BoundNames}
        \cup {BindLine(k, x, Name_u) : k \in Keywords, x \in BoundNames}

\* `a op1 b op2 c`
NameTriple == <<Name_a, Name_b, Name_c>>
OperandTriples ==
    {<< <<"5">>, <<"3">>, <<"1">> >>,
     NameTriple,
     <<KwTrue, KwFalse, KwTrue>>}
ChainedLine(t, op1, op2) ==
    Words(<<t[1], OperatorText(op1), t[2], OperatorText(op2), t[3]>>)
\* `a = b op c`, `a op b = c`, `U a op b`
AssignRightLine(t, op) == Words(<<t[1], Eq, t[2], OperatorText(op), t[3]>>)
AssignLeftLine(t, op) == Words(<<t[1], OperatorText(op), t[2], Eq, t[3]>>)
UnaryLine(t, u, op) == OperatorText(u) \o Words(<<t[1], OperatorText(op), t[2]>>)

PrecedenceLines ==
    {ChainedLine(t, op1, op2) : t \in OperandTriples, op1 \in BinaryOperators,
                                op2 \in BinaryOperators}
        \cup {AssignRightLine(NameTriple, op) : op \in BinaryOperators}
        \cup {AssignLeftLine(NameTriple, op) : op \in BinaryOperators}
        \cup {UnaryLine(t, u, op) : t \in OperandTriples, u \in UnaryOperators,
                                    op \in BinaryOperators}

\* `5 + 5 * 2 / 5 - 2`
ArithmeticLine == <<"5", " ", "+", " ", "5", " ", "*", " ", "2", " ", "/", " ", "5",
                    " ", "-", " ", "2">>

\* `{k: e}.k`
ObjectAccessLine(k, e) == <<"{">> \o k \o <<":", " ">> \o e \o <<"}", ".">> \o k
ObjectAccessLines == {ObjectAccessLine(k, l.text) : k \in {Name_wip, Name_a}, l \in Literals}

\* Expressions that evaluate to a number, with the number.
NumberExpressions ==
    {Lit(<<"5">>, Frac(5, 1)),
     Lit(<<"0">>, Frac(0, 1)),
     Lit(<<"2", ".", "5">>, Frac(5, 2)),
     Lit(<<"0", ".", "0">>, Frac(0, 1)),
     Lit(<<"-", "0">>, Frac(0, 1)),
     Lit(<<"-", "4">>, Frac(-4, 1)),
     Lit(<<"(", "1", "-", "1", ")">>, Frac(0, 1)),
     Lit(<<"(", "1", "+", "2", ")">>, Frac(3, 1))}
DivisionLine(l, r) == Words(<<l, <<"/">>, r>>)
DivisionLines == {DivisionLine(l.text, r.text) : l \in NumberExpressions, r \in NumberExpressions}

\* Expressions whose evaluation fails, with the message of the error.
FailingExpressions ==
    {Lit(Name_u, "Can't access the variable as it's not defined"),
     Lit(<<"(", "1", "/", "0", ")">>, "Can't divide by 0"),
     Lit(<<"!", "1">>, "Can't use with"),
     Lit(<<"u", ".", "p">>, "Can't access the variable as it's not defined"),
     Lit(<<"m", "a", "t", "h", ".", "u">>, "Can't access the property as it's not defined")}
LogicalLine(l, op, r) == Words(<<l, OperatorText(op), r>>)
LogicalLines ==
    {LogicalLine(l, op, r.text) : l \in {KwTrue, KwFalse}, op \in LogicalOperators,
                                  r \in FailingExpressions \cup {Lit(KwTrue, "")}}

KwNone == <<"n", "o", "n", "e">>

\* Operands of `==` and `!=`, of every type, with the Value each denotes.
EqualityOperands ==
    {Lit(<<"1">>, Value_Number(Frac(1, 1))),
     Lit(<<"1", ".", "0">>, Value_Number(Frac(1, 1))),
     Lit(<<"2", ".", "5">>, Value_Number(Frac(5, 2))),
     Lit(KwTrue, Value_Boolean(TRUE)),
     Lit(KwFalse, Value_Boolean(FALSE)),
     Lit(KwNone, Value_None),
     Lit(<<Quote, "1", Quote>>, Value_String(<<"1">>)),
     Lit(<<Quote, Quote>>, Value_String(<<>>)),
     Lit(<<"{", "}">>, Value_Object(EmptyMap)),
     Lit(<<"{", "a", ":", "1", "}">>, Value_Object(Name_a :> Value_Number(Frac(1, 1)))),
     Lit(<<"{", "a", ":", Quote, "1", Quote, "}">>,
         Value_Object(Name_a :> Value_String(<<"1">>)))}
EqualityLine(l, op, r) == Words(<<l, OperatorText(op), r>>)
EqualityLines ==
    {EqualityLine(l.text, op, r.text) :
        l \in EqualityOperands, op \in EqualityOperators, r \in EqualityOperands}

\* Object literals: `{k: v, ..}` for a list of pairs, with a trailing comma, with a comma
\* missing between two lists of pairs, and left unclosed.
KeyValue(k, v) == [key |-> k, value |-> v]
PairTexts == {KeyValue(k, v) : k \in {Name_a, Name_b}, v \in {<<"1">>, KwTrue}}
PairLists ==
    {<<>>} \cup {<<p>> : p \in PairTexts} \cup {<<p, q>> : p \in PairTexts, q \in PairTexts}
        \cup {<<KeyValue(Name_b, KwTrue), KeyValue(Name_a, <<"1">>), KeyValue(Name_b, <<"1">>)>>}
PairText(p) == p.key \o <<":", " ">> \o p.value

RECURSIVE JoinPairs(_)
JoinPairs(ps) ==
    IF ps = <<>> THEN <<>>
    ELSE IF Len(ps) = 1 THEN PairText(ps[1])
    ELSE PairText(ps[1]) \o <<",", " ">> \o JoinPairs(Tail(ps))

ObjectLine(ps) == <<"{">> \o JoinPairs(ps) \o <<"}">>
TrailingCommaLine(ps) == <<"{">> \o JoinPairs(ps) \o <<",", "}">>
MissingCommaLine(ps, qs) == <<"{">> \o JoinPairs(ps) \o <<" ">> \o JoinPairs(qs) \o <<"}">>
UnclosedLine(ps) == <<"{">> \o JoinPairs(ps)
ObjectLines ==
    {ObjectLine(ps) : ps \in PairLists}
        \cup {TrailingCommaLine(ps) : ps \in PairLists}
        \cup {MissingCommaLine(ps, <<q>>) : ps \in PairLists \ {<<>>}, q \in PairTexts}
        \cup {UnclosedLine(ps) : ps \in PairLists \ {<<>>}}

\* Malformed bindings: the first n parts of `kw a =`, then a token t that cannot stand at
\* part n + 1 (none when t is empty: the input ends there), then the tail.
StatementPrefix(kw, n) == Words(SubSeq(<<kw, Name_a, Eq>>, 1, n))
WrongTokens(n) ==
    CASE n = 1 -> {<<>>, Eq, <<"1">>, KwLet, <<Quote, "s", Quote>>, <<")">>}
      [] n = 2 -> {<<>>, <<"1">>, Name_a, <<"=", "=">>, <<":">>, KwConst}
      [] n = 3 -> {<<>>, <<")">>, Eq, KwLet, <<",">>, <<"}">>}
Tails == {<<>>, <<" ", "=", " ", "1">>}
MalformedLine(kw, n, t, tail) ==
    IF t = <<>> THEN StatementPrefix(kw, n)
    ELSE Words(<<StatementPrefix(kw, n), t>>) \o tail
MalformedLines ==
    UNION {{MalformedLine(kw, n, t, tail) :
                kw \in {KwLet, KwConst}, t \in WrongTokens(n), tail \in Tails} : n \in 1..3}
        \cup {LetLine(Name_a, <<"1">>), ConstLine(Name_a, <<"1">>)}

\* `let c = v c.p`, and the properties of the built-in objects.
AccessLine(v, p) == Words(<<KwLet, Name_c, Eq, v, Name_c \o <<".">> \o p>>)
DotLine(x, p) == x \o <<".">> \o p
AccessLines ==
    {AccessLine(v.text, p) : v \in EqualityOperands, p \in {Name_a, Name_b}}
        \cup {DotLine(x, p) : x \in {Name_fns, Name_math, Name_u},
                              p \in {Name_pi, Name_e, Name_version}}

\* `x.p.q`, a dot with no property after it, a dot followed by a number, and an access
\* written with spaces around the dot.
ChainedDotLine(x, p, q) == DotLine(DotLine(x, p), q)
ChainedDotLines ==
    {ChainedDotLine(x, p, q) : x \in {Name_fns, Name_u}, p \in {Name_version, Name_a},
                               q \in {Name_a, Name_b}}
PrimaryLines ==
    ChainedDotLines
        \cup {Name_fns \o <<".">>, Name_fns \o <<".", "1">>,
              Words(<<Name_fns, <<".">>, Name_version>>),
              Words(<<Name_fns, Name_version>>)}

\* Sources that end in the middle of a production.
TruncatedLines ==
    {<<"-">>, <<"!">>, <<"1", " ", "+">>, <<"1", " ", "&", "&">>, <<"a", " ", "=">>,
     <<"(">>, <<"(", "1">>, <<"{">>, <<"{", "a">>, <<"{", "a", ":">>, <<"{", "a", ":", "1">>,
     <<"{", "a", ":", "1", ",">>, KwLet, Words(<<KwLet, Name_a>>), Words(<<KwConst, Name_a, Eq>>),
     <<"1", " ", NUL, " ", "+">>}

\* `x = e` for a target that is unbound (u) or constant (c after `const c = 1`, the
\* built-in fns) and a value e whose evaluation would fail.
TargetPrefix(x) == IF x = Name_c THEN ConstLine(Name_c, <<"1">>) \o <<" ">> ELSE <<>>
BadTargets == {Name_u, Name_c, Name_fns}
FailingValues ==
    FailingExpressions \cup {Lit(<<"a", " ", "=", " ", "7">>, ""), Lit(<<"b", ".", "p">>, "")}
BadAssignLine(x, e) == TargetPrefix(x) \o Words(<<x, Eq, e>>)
BadAssignLines == {BadAssignLine(x, e.text) : x \in BadTargets, e \in FailingValues}

\* `op v` and `op1 op2 v` for the prefix operators and operands of every type, and the
\* `--+-5` of the evaluator's test.
PrefixLine(ops, v) == ops \o v
PrefixLines ==
    {PrefixLine(OperatorText(op), v.text) : op \in UnaryOperators, v \in EqualityOperands}
        \cup {PrefixLine(OperatorText(op1) \o OperatorText(op2), v.text) :
                op1 \in UnaryOperators, op2 \in UnaryOperators, v \in EqualityOperands}
        \cup {<<"-", "-", "+", "-", "5">>}

\* `l op r` for every binary operator and operands of every type, and the
\* `"hello, " + "world!"` of the evaluator's test.
TypedOperands ==
    {v \in EqualityOperands :
        v.text \notin {<<"1", ".", "0">>, <<"{", "}">>, <<"{", "a", ":", Quote, "1", Quote, "}">>}}
TypedLine(l, op, r) == Words(<<l, OperatorText(op), r>>)
TypedLines ==
    {TypedLine(l.text, op, r.text) :
        l \in TypedOperands, op \in BinaryOperators, r \in TypedOperands}
HelloWorldLine ==
    <<Quote, "h", "e", "l", "l", "o", ",", " ", Quote, " ", "+", " ",
      Quote, "w", "o", "r", "l", "d", "!", Quote>>

\* Two failing expressions as the operands of one binary operator, and as two statements
\* after the statements of a prefix.
BothFailLine(l, op, r) == Words(<<l, OperatorText(op), r>>)
StatementPrefixes == {<<>>, LetLine(Name_a, <<"1">>) \o <<" ">>}
TwoFailLine(prefix, l, r) == prefix \o Words(<<l, r>>)
FailFastLines ==
    {BothFailLine(l.text, op, r.text) :
        l \in FailingExpressions, op \in BinaryOperators, r \in FailingExpressions}
        \cup {TwoFailLine(prefix, l.text, r.text) :
                prefix \in StatementPrefixes, l \in FailingExpressions,
                r \in FailingExpressions \cup {Lit(LetLine(Name_b, <<"2">>), "")}}

\* Object literals whose values fail, `{a: l, b: r}`; whose values assign, after
\* `let c = 1`; and the literal of the evaluator's test.
OneText == <<"1">>
PairValues == FailingExpressions \cup {Lit(OneText, "")}
ValuesLine(l, r) == <<"{", "a", ":", " ">> \o l \o <<",", " ", "b", ":", " ">> \o r \o <<"}">>
FailingObjectLines ==
    {ValuesLine(l.text, r.text) : l \in PairValues, r \in PairValues}
AssignThenReadLine ==
    LetLine(Name_c, OneText) \o <<" ">> \o ValuesLine(AssignLine(Name_c, <<"2">>), Name_c)
ReadThenAssignLine ==
    LetLine(Name_c, OneText) \o <<" ">> \o ValuesLine(Name_c, AssignLine(Name_c, <<"2">>))
TestObjectLine ==
    <<"{", "n", "a", "m", "e", ":", " ", Quote, "f", "n", "s", Quote, ",", " ",
      "p", "a", "r", "a", "d", "i", "g", "m", ":", " ",
      Quote, "f", "u", "n", "c", "t", "i", "o", "n", "a", "l", Quote, ",", " ",
      "w", "i", "p", ":", " ", "t", "r", "u", "e", "}">>
DuplicateKeyLine == <<"{", "a", ":", " ", "1", ",", " ", "a", ":", " ", "2", "}">>
ObjectValueLines ==
    FailingObjectLines
        \cup {AssignThenReadLine, ReadThenAssignLine, TestObjectLine, DuplicateKeyLine}

Programs ==
    PrecedenceLines \cup {ArithmeticLine} \cup ObjectAccessLines \cup DivisionLines
        \cup LogicalLines \cup EqualityLines \cup ObjectLines \cup MalformedLines
        \cup AccessLines \cup BadAssignLines \cup PrefixLines \cup TypedLines
        \cup {HelloWorldLine} \cup FailFastLines \cup ObjectValueLines \cup PrimaryLines
        \cup TruncatedLines

\* Raw text: every sequence of at most MaxSourceLen characters of TextAlphabet, and the
\* sources of the tokenizer's tests.
TextAlphabet ==
    {" ", "\n", NUL, ".", "/", "=", "!", Quote, Backslash, "a", EAcute, "1", "#"}

RECURSIVE TextsOfLength(_)
TextsOfLength(n) ==
    IF n = 0 THEN {<<>>}
    ELSE {Append(t, ch) : t \in TextsOfLength(n - 1), ch \in TextAlphabet}

TestSources ==
    {<<"l", "e", "t", " ", "n", "u", "m", "b", "e", "r", " ", "=", " ", "2", ".", "5">>,
     <<"l", "e", "t", " ", "c", "o", "n", "s", "t", " ", "t", "r", "u", "e", " ",
       "f", "a", "l", "s", "e", " ", "n", "o", "n", "e">>,
     <<Quote, "h", "e", "l", "l", "o", ",", " ", "w", "o", "r", "l", "d", "!", Quote>>,
     <<"=", "(", "+", "-", "*", "/", ")", "!", "&", "&", "&", "|", "|", "|", ">", "<",
       ">", "=", "<", "=", "=", "=", "!", "=", "{", "}", ":", ",", ".">>,
     <<" ", " ", "\t", " ", "\n", " ", "\r">>,
     <<"/", "/", " ", "a", " ", "c", "o", "m", "m", "e", "n", "t">>,
     <<"1", ".", "2", ".", "3">>,
     <<"c", "a", "f", EAcute, " ", "=", " ", Quote, EAcute, Quote>>,
     <<"a", " ", Quote, "a", Backslash, Quote, "b", Quote>>,
     <<"&", "&", "&">>,
     <<"<", "=", "=", "=">>}

\* The characters of the one- and two-character operators, and the blank.
OperatorAlphabet == {"&", "|", "=", "!", ">", "<", " "}

RECURSIVE OperatorTextsOfLength(_)
OperatorTextsOfLength(n) ==
    IF n = 0 THEN {<<>>}
    ELSE {Append(t, ch) : t \in OperatorTextsOfLength(n - 1), ch \in OperatorAlphabet}

Texts ==
    UNION {TextsOfLength(n) \cup OperatorTextsOfLength(n) : n \in 0..MaxSourceLen}
        \cup TestSources

(***************************************************************************)
(* The pipeline as a state machine: main.rs run (tokenize, parse,          *)
(* evaluate with no parent), and the chaining of the evaluator's tests      *)
(* (evaluate with the environment the previous evaluate returned).          *)
(***************************************************************************)
Start(l) ==
    /\ pc = "tokenize"
    /\ line = l
    /\ tokens = <<>>
    /\ program = <<>>
    /\ parent = None
    /\ value = Value_None
    /\ environment = <<>>
    /\ error = None
    /\ history = <<>>

Init == \E l \in Programs : Start(l)
InitChain == \E l \in BindingLines : Start(l)
InitText == \E l \in Texts : Start(l)

\* Ok(tokens) goes on to the parser; Err(error) is returned by `?`.
Tokenized(r) ==
    IF r.ok
    THEN /\ tokens' = r.tokens
         /\ pc' = "parse"
         /\ error' = error
    ELSE /\ tokens' = tokens
         /\ pc' = "failed"
         /\ error' = r.error

Tokenize ==
    /\ pc = "tokenize"
    /\ Tokenized(tokenize(line))
    /\ UNCHANGED <<line, program, parent, value, environment, history>>

\* Ok(program) goes on to the evaluator; Err(error) is returned by `?`; a panic aborts.
Parsed(r) ==
    CASE r.tag = "Ok" ->
            /\ program' = r.node
            /\ pc' = "evaluate"
            /\ error' = error
      [] r.tag = "Err" ->
            /\ program' = program
            /\ pc' = "failed"
            /\ error' = r.error
      [] r.tag = "Panic" ->
            /\ program' = program
            /\ pc' = "panicked"
            /\ error' = error

Parse ==
    /\ pc = "parse"
    /\ Parsed(parse(tokens))
    /\ UNCHANGED <<line, tokens, parent, value, environment, history>>

\* Ok((value, environment)) or Err(error).
Evaluated(r) ==
    IF r.tag = "Ok"
    THEN /\ value' = r.value
         /\ environment' = r.environment
         /\ pc' = "done"
         /\ error' = error
    ELSE /\ value' = value
         /\ environment' = environment
         /\ pc' = "failed"
         /\ error' = r.error

Evaluate ==
    /\ pc = "evaluate"
    /\ Evaluated(evaluate(program, parent))
    /\ UNCHANGED <<line, tokens, program, parent, history>>

\* The next evaluation of a chain: evaluate(program, Some(env)) with the environment the
\* evaluation before returned.
Chain ==
    /\ pc = "done"
    /\ Len(history) < MaxChain
    /\ \E l \in ChainLines :
        /\ line' = l
        /\ history' = Append(history, [line |-> line, value |-> value])
        /\ parent' = Some(environment)
        /\ pc' = "tokenize"
        /\ tokens' = <<>>
        /\ program' = <<>>
        /\ value' = Value_None
        /\ environment' = <<>>
        /\ error' = None

\* A chained evaluation that binds a name the chain has bound before.
ChainRebinding ==
    /\ pc = "done"
    /\ Len(history) < MaxChain
    /\ \E l \in RebindChainLines :
        /\ line' = l
        /\ history' = Append(history, [line |-> line, value |-> value])
        /\ parent' = Some(environment)
        /\ pc' = "tokenize"
        /\ tokens' = <<>>
        /\ program' = <<>>
        /\ value' = Value_None
        /\ environment' = <<>>
        /\ error' = None

NextRun == Tokenize \/ Parse \/ Evaluate
Next == Tokenize \/ Parse \/ Evaluate \/ Chain

Spec == Init /\ [][NextRun]_vars
SpecText == InitText /\ [][NextRun]_vars
SpecChain == InitChain /\ [][Next]_vars

InitRebind == \E l \in RebindFirstLines : Start(l)
NextRebind == Tokenize \/ Parse \/ Evaluate \/ ChainRebinding
SpecRebind == InitRebind /\ [][NextRebind]_vars

(***************************************************************************)
(* repl.rs: the interactive shell.  `parent` holds the shell's carried     *)
(* environment, which run hands to evaluate as Some(environment).          *)
(***************************************************************************)
MaxLines == 2

\* runtime/interpreter.rs evaluate, the evaluate repl.rs imports: the value starts as
\* Number(0.).  Its statement and expression functions are those of evaluator.rs on the
\* statements the shell's lines below use (let, identifier, number, arithmetic, assignment).
interpreter_evaluate(prog, parent_env) ==
    evaluate_loop(prog, Value_Number(FracZero), Environment_new(parent_env))

\* read_line keeps the newline of the line typed.
Typed(l) == Append(l, "\n")

\* `let b = 7 u` binds b and then fails evaluating u; `let b = 7 "` fails in the tokenizer,
\* `let b = 7 let` in the parser; `a = 7 1 / 0` assigns and then fails.
BindThenFailLines ==
    {Typed(Words(<<KwLet, Name_b, Eq, Seven, Name_u>>)),
     Typed(Words(<<KwLet, Name_b, Eq, Seven, <<Quote>> >>)),
     Typed(Words(<<KwLet, Name_b, Eq, Seven, KwLet>>)),
     Typed(Words(<<Name_a, Eq, Seven, <<"1">>, <<"/">>, <<"0">> >>))}

ReplLines ==
    {Typed(LetLine(Name_a, <<"1">>)),
     Typed(ReadLine(Name_a)),
     Typed(ReadLine(Name_b)),
     Typed(AssignLine(Name_a, Seven)),
     Typed(<<>>),
     <<"/", "/", "\n">>}
        \cup BindThenFailLines

\* repl.rs 10: the shell starts from a root environment.
InitRepl ==
    /\ pc = "tokenize"
    /\ line \in ReplLines
    /\ tokens = <<>>
    /\ program = <<>>
    /\ parent = Some(Environment_new(None))
    /\ value = Value_None
    /\ environment = <<>>
    /\ error = None
    /\ history = <<>>

\* repl.rs 33-35: evaluate(program, Some(environment)), then the value is printed.
ReplEvaluate ==
    /\ pc = "evaluate"
    /\ Evaluated(interpreter_evaluate(program, parent))
    /\ UNCHANGED <<line, tokens, program, parent, history>>

\* Mutant of carry_environment: an error resets the shell to a fresh root environment.
carry_environment_reset(before, returned, ok) ==
    IF ok THEN Some(returned) ELSE Some(Environment_new(None))

\* repl.rs 22-25: Ok(old_environment) => environment = old_environment; Err(error) =>
\* error.report(..) leaves the shell's environment as it was.
carry_environment(before, returned, ok) ==
    IF ok THEN Some(returned) ELSE before

\* repl.rs 16-27: the match on run's result, source_code.clear(), and the next read_line.
ReplLoop ==
    /\ pc \in {"done", "failed"}
    /\ Len(history) < MaxLines
    /\ \E l \in ReplLines :
        /\ line' = l
        /\ history' = Append(history, [line |-> line, value |-> value, ok |-> pc = "done"])
        /\ parent' = carry_environment(parent, environment, pc = "done")
        /\ pc' = "tokenize"
        /\ tokens' = <<>>
        /\ program' = <<>>
        /\ value' = Value_None
        /\ environment' = <<>>
        /\ error' = None

NextRepl == Tokenize \/ Parse \/ ReplEvaluate \/ ReplLoop
SpecRepl == InitRepl /\ [][NextRepl]_vars

(***************************************************************************)
(* Properties                                                              *)
(***************************************************************************)
Finished == pc \in {"done", "failed", "panicked"}
AfterParse == pc \notin {"tokenize", "parse"}
Accepted == tokens # <<>>
Failed(msg) == pc = "failed" /\ IsSome(error) /\ Unwrap(error).msg = msg
Yields(v) == pc = "done" /\ Value_eq(value, v)

\* The shape of an expression: its operators and operands without the spans.
Leaf(text) == [leaf |-> text]
Bin(op, l, r) == [binary |-> op, left |-> l, right |-> r]
Un(op, r) == [unary |-> op, operand |-> r]
Assign(x, e) == [assign |-> x, expression |-> e]

RECURSIVE Shape(_)
Shape(e) ==
    CASE e.type = "Binary" -> Bin(e.operator.kind, Shape(e.left), Shape(e.right))
      [] e.type = "Unary" -> Un(e.operator.kind, Shape(e.right))
      [] e.type = "Assignment" -> Assign(e.identifier.lexeme, Shape(e.expression))
      [] e.type = "Identifier" -> Leaf(e.identifier.lexeme)
      [] e.type = "Numeric" -> Leaf(e.number.lexeme)
      [] e.type = "Boolean" -> Leaf(e.boolean.lexeme)
      [] e.type = "String" -> Leaf(e.string.lexeme)
      [] e.type = "None" -> Leaf(e.none.lexeme)
      [] OTHER -> [other |-> e.type]

\* The program is the single expression statement of shape s.
ParsedAs(s) ==
    /\ Len(program) = 1
    /\ program[1].type = "Expression"
    /\ Shape(program[1].expression) = s

SevenValue == Value_Number(Frac(7, 1))
ConstantMessage == "Can't assign the variable as it's a constant"

\* The value the chain has last given to x: w once an `x = w` succeeded, else v.
LastAssigned(x, v) ==
    IF \E i \in 2..Len(history) :
            history[i].line \in {AssignLine(x, Seven), AssignReadLine(x, Seven)}
    THEN SevenValue
    ELSE v

\* C1: for any identifier x and value v, `let x = v` with no parent yields none; in every
\* later evaluation chained to the returned environment `x` yields v; a chained `x = w`
\* succeeds and yields w, and from then on `x` yields w, in that evaluation and in those
\* chained to it.  (Stated as claimed; the built-in names are identifiers too.)
C1_LetThenReadAndAssign ==
    \A x \in BoundNames, l \in Literals :
        /\ (history = <<>> /\ line = LetLine(x, l.text) /\ Finished) => Yields(Value_None)
        /\ (history # <<>> /\ history[1].line = LetLine(x, l.text) /\ Finished) =>
                /\ line = ReadLine(x) => Yields(LastAssigned(x, l.value))
                /\ line = AssignLine(x, Seven) => Yields(SevenValue)
                /\ line = AssignReadLine(x, Seven) => Yields(SevenValue)

\* C2: after `const x = v`, every `x = w` in the same evaluation or in any evaluation
\* chained to the result fails with the 'is a constant' error, and after any sequence of
\* evaluations of assignments and expression statements `x` still yields v.  (Stated as
\* claimed; the built-in names are identifiers too.)
C2_ConstStaysConst ==
    \A x \in BoundNames, l \in Literals :
        /\ (history = <<>> /\ line = ConstAssignLine(x, l.text, Seven) /\ Finished) =>
                Failed(ConstantMessage)
        /\ (history # <<>> /\ history[1].line = ConstLine(x, l.text) /\ Finished) =>
                /\ line \in {AssignLine(x, Seven), AssignReadLine(x, Seven)} =>
                        Failed(ConstantMessage)
                /\ line = ReadLine(x) => Yields(l.value)

\* C3: tokenizing, parsing and evaluating `{k: e}.k` succeeds as a single expression
\* statement and yields the value of e.
C3_ObjectLiteralAccess ==
    \A k \in {Name_wip, Name_a}, l \in Literals :
        (line = ObjectAccessLine(k, l.text) /\ Finished) =>
            /\ Len(program) = 1
            /\ Yields(l.value)

FiveThreeOne == ChainedLine(<< <<"5">>, <<"3">>, <<"1">> >>, "Minus", "Minus")

\* C4: at every binary level `a op1 b op2 c` with op1 and op2 of one level parses as
\* `a op1 (b op2 c)`; `5 - 3 - 1` evaluates to 3.
C4_RightAssociative ==
    /\ \A t \in OperandTriples, op1 \in BinaryOperators, op2 \in BinaryOperators :
            (Level(op1) = Level(op2) /\ line = ChainedLine(t, op1, op2) /\ AfterParse) =>
                ParsedAs(Bin(op1, Leaf(t[1]), Bin(op2, Leaf(t[2]), Leaf(t[3]))))
    /\ (line = FiveThreeOne /\ Finished) => Yields(Value_Number(Frac(3, 1)))

\* `5 - 3 - 1` has been evaluated, to 3.
C4_Witness ==
    /\ line = FiveThreeOne
    /\ ParsedAs(Bin("Minus", Leaf(<<"5">>), Bin("Minus", Leaf(<<"3">>), Leaf(<<"1">>))))
    /\ Yields(Value_Number(Frac(3, 1)))

\* The parts of C5 that hold of every operator pair of two different binary levels, of the
\* unary operators, of `a && b || c` and of `5 + 5 * 2 / 5 - 2`.
PrecedenceOfBinaryLevels ==
    /\ \A t \in OperandTriples, op1 \in BinaryOperators, op2 \in BinaryOperators :
            (Level(op1) # Level(op2) /\ line = ChainedLine(t, op1, op2) /\ AfterParse) =>
                IF Level(op1) < Level(op2)
                THEN ParsedAs(Bin(op1, Leaf(t[1]), Bin(op2, Leaf(t[2]), Leaf(t[3]))))
                ELSE ParsedAs(Bin(op2, Bin(op1, Leaf(t[1]), Leaf(t[2])), Leaf(t[3])))
    /\ \A t \in OperandTriples, u \in UnaryOperators, op \in BinaryOperators :
            (line = UnaryLine(t, u, op) /\ AfterParse) =>
                ParsedAs(Bin(op, Un(u, Leaf(t[1])), Leaf(t[2])))
    /\ \A t \in OperandTriples :
            (line = ChainedLine(t, "DoubleAmpersand", "DoublePipe") /\ AfterParse) =>
                ParsedAs(Bin("DoubleAmpersand", Leaf(t[1]),
                             Bin("DoublePipe", Leaf(t[2]), Leaf(t[3]))))
    /\ (line = ArithmeticLine /\ Finished) => Yields(Value_Number(Frac(5, 1)))
    /\ \A op \in BinaryOperators :
            (line = AssignRightLine(NameTriple, op) /\ AfterParse) =>
                ParsedAs(Assign(Name_a, Bin(op, Leaf(Name_b), Leaf(Name_c))))

\* C5 (as amended): for two binary levels, L looser than T, `a L b T c` parses as
\* `a L (b T c)` and `a T b L c` as `(a T b) L c`; a unary prefix binds tighter than every
\* binary operator; `a && b || c` parses as `a && (b || c)`; `5 + 5 * 2 / 5 - 2` evaluates
\* to 5; assignment is the loosest level in `x = b T c`, which parses as `x = (b T c)`,
\* whereas `a T b = c` is rejected with "Unexpected token '='".
C5_Precedence ==
    /\ PrecedenceOfBinaryLevels
    /\ \A op \in BinaryOperators :
            (line = AssignLeftLine(NameTriple, op) /\ AfterParse) =>
                /\ Failed("Unexpected token")
                /\ Unwrap(error).args = <<Eq>>
                /\ program = <<>>

\* `5 + 5 * 2 / 5 - 2` has been evaluated, to 5.
C5_Witness == line = ArithmeticLine /\ Yields(Value_Number(Frac(5, 1)))

\* C5 (as claimed): the rule `a T b L c` parses as `(a T b) L c` for every looser L,
\* assignment included.
C5_Original ==
    /\ PrecedenceOfBinaryLevels
    /\ \A op \in BinaryOperators :
            (line = AssignLeftLine(NameTriple, op) /\ AfterParse) =>
                /\ Len(program) = 1
                /\ program[1].type = "Expression"
                /\ program[1].expression.type = "Assignment"

DivideMessage == "Can't divide by 0"

\* C6: for every `l / r` whose operands evaluate to numbers, a zero right operand fails
\* with "Can't divide by 0" and produces no value; otherwise the quotient is yielded.
C6_Division ==
    \A l \in NumberExpressions, r \in NumberExpressions :
        (line = DivisionLine(l.text, r.text) /\ Finished) =>
            IF r.value = FracZero
            THEN Failed(DivideMessage) /\ value = Value_None /\ environment = <<>>
            ELSE /\ pc = "done"
                 /\ value.type = "Number"
                 /\ FracMul(value.number, r.value) = l.value

\* `5 / 0` has failed with the division error.
C6_Witness == line = DivisionLine(<<"5">>, <<"0">>) /\ Failed(DivideMessage)

\* The offset at which r starts in `l op r`.
RightStart(l, op) == Len(l) + Len(OperatorText(op)) + 2

\* C7: for `l && r` and `l || r` whose r fails, the whole expression fails with r's
\* error (its message, at a span inside r), whatever boolean l is.
C7_NoShortCircuit ==
    \A l \in {KwTrue, KwFalse}, op \in LogicalOperators, r \in FailingExpressions :
        (line = LogicalLine(l, op, r.text) /\ Finished) =>
            /\ Failed(r.value)
            /\ Unwrap(error).text_span.starting_index >= RightStart(l, op)
            /\ Unwrap(error).text_span.ending_index <= Len(line)

\* `false && u` has failed with the error of u.
C7_Witness ==
    /\ line = LogicalLine(KwFalse, "DoubleAmpersand", Name_u)
    /\ Failed("Can't access the variable as it's not defined")

\* source[a..b], when [a, b) lies inside the text.
SafeSlice(s, a, b) ==
    IF 0 <= a /\ a <= b /\ b <= Len(s) THEN Some(Slice(s, a, b)) ELSE None

EofTokens == {i \in 1..Len(tokens) : tokens[i].kind = "Eof"}
NulCharacters == {j \in 1..Len(line) : line[j] = NUL}

\* C8 (as claimed): every token of an accepted source has as lexeme the substring of the
\* source at its span [start, end), start and end being byte offsets.
C8_Original ==
    Accepted =>
        \A i \in 1..Len(tokens) :
            Some(Utf8(tokens[i].lexeme))
                = SafeSlice(Utf8(line), tokens[i].text_span.starting_index,
                            tokens[i].text_span.ending_index)

\* C8 (as amended): with start and end counted in characters, the lexeme of a String
\* token is the source strictly inside its span, [start + 1, end - 1); the final
\* end-of-input token has the lexeme "\0" and starts at the end of the source; every
\* other token's lexeme is the source at its span [start, end).
C8_LexemeRoundTrip ==
    Accepted =>
        \A i \in 1..Len(tokens) :
            LET t == tokens[i]
                start == t.text_span.starting_index
                end == t.text_span.ending_index
            IN
            CASE t.kind = "String" -> Some(t.lexeme) = SafeSlice(line, start + 1, end - 1)
              [] t.kind # "String" /\ i = Len(tokens) ->
                    t.lexeme = <<NUL>> /\ start = Len(line)
              [] OTHER -> Some(t.lexeme) = SafeSlice(line, start, end)

\* An accepted source with a String token and an identifier holding a two-byte character.
C8_Witness ==
    /\ Accepted
    /\ \E i \in 1..Len(tokens) : tokens[i].kind = "String" /\ tokens[i].lexeme # <<>>
    /\ \E i \in 1..Len(tokens) :
            /\ tokens[i].kind = "Identifier"
            /\ \E j \in 1..Len(tokens[i].lexeme) : tokens[i].lexeme[j] = EAcute

\* C9 (as claimed): an accepted source has exactly one end-of-input token, the last one,
\* whose span is empty at start = end = source length.
C9_Original ==
    Accepted =>
        /\ Cardinality(EofTokens) = 1
        /\ tokens[Len(tokens)].kind = "Eof"
        /\ tokens[Len(tokens)].text_span.starting_index = Len(Utf8(line))
        /\ tokens[Len(tokens)].text_span.ending_index = Len(Utf8(line))

\* C9 (as amended): the last token of an accepted source is an end-of-input token whose
\* span is [n, n + 1), n the length of the source in characters; it is the only one unless
\* the source holds NUL characters, each of which makes one more.
C9_EofLast ==
    Accepted =>
        /\ tokens[Len(tokens)].kind = "Eof"
        /\ tokens[Len(tokens)].text_span = TextSpan_new(Len(line), Len(line) + 1)
        /\ Cardinality(EofTokens) = 1 + Cardinality(NulCharacters)

\* An accepted source with a NUL character in it: two end-of-input tokens among three.
C9_Witness ==
    /\ Accepted
    /\ Len(tokens) = 3
    /\ Cardinality(EofTokens) = 2

\* C10: when the lexer accepts a source that is one numeric lexeme, parsing it returns a
\* numeric-literal expression and does not abort.
C10_NumericLexemeConverts ==
    (Accepted /\ Len(tokens) = 2 /\ tokens[1].kind = "Number" /\ AfterParse) =>
        /\ pc # "panicked"
        /\ Len(program) = 1
        /\ program[1].type = "Expression"
        /\ program[1].expression.type = "Numeric"

NotDefinedMessage == "Can't access the variable as it's not defined"

\* C11: in the shell, a line that fails in tokenizing, parsing or evaluation leaves the
\* carried environment exactly as it was before the line, so that no binding made by the
\* failed line's statements is visible afterwards (`b`, bound only by failing lines, stays
\* undefined); a line that succeeds makes the carried environment the one its evaluation
\* returned; and the carried environment changes nowhere else.
C11_FailedLineKeepsEnvironment ==
    /\ []((line = Typed(ReadLine(Name_b)) /\ Finished) => Failed(NotDefinedMessage))
    /\ [][/\ (pc = "failed" /\ pc' = "tokenize") => parent' = parent
          /\ (pc = "done" /\ pc' = "tokenize") => parent' = Some(environment)
          /\ pc' # "tokenize" => parent' = parent]_vars

\* After `let a = 1` succeeded and `let b = 7 u` failed, `b` has failed as undefined.
C11_Witness ==
    /\ Len(history) = 2
    /\ history[1].line = Typed(LetLine(Name_a, <<"1">>)) /\ history[1].ok
    /\ history[2].line = Typed(Words(<<KwLet, Name_b, Eq, Seven, Name_u>>))
    /\ ~history[2].ok
    /\ line = Typed(ReadLine(Name_b))
    /\ Failed(NotDefinedMessage)
    /\ access(Unwrap(parent), Name_a) = Some(Value_Number(Frac(1, 1)))

\* C12: the built-in bindings `fns` and `math` are seeded only into a frame created with no
\* parent; a frame created with a parent starts with no bindings of its own, so that after
\* a line that binds nothing every name, `fns` and `math` included, is looked up to the
\* binding of the nearest enclosing frame that defines it.
C12_BuiltinsOnlyInRoot ==
    pc = "done" =>
        /\ parent = None => {Name_fns, Name_math} \subseteq DOMAIN environment.variables
        /\ (IsSome(parent) /\ line \in {ReadLine(x) : x \in BoundNames} \cup {Seven}) =>
                /\ environment.parent = parent
                /\ DOMAIN environment.variables = {}
                /\ \A n \in {Name_a, Name_b, Name_fns, Name_math} :
                        access(environment, n) = access(Unwrap(parent), n)

\* C13: `==` and `!=` never fail on type grounds: for operands l and r of any types,
\* `l == r` yields true exactly when l and r denote the same value of the same type and
\* `l != r` yields the negation; values of different types are never equal.
C13_EqualityAcrossTypes ==
    \A l \in EqualityOperands, r \in EqualityOperands :
        LET same == l.value.type = r.value.type /\ l.value = r.value IN
        /\ (line = EqualityLine(l.text, "DoubleEqual", r.text) /\ Finished) =>
                pc = "done" /\ value = Value_Boolean(same)
        /\ (line = EqualityLine(l.text, "BangEqual", r.text) /\ Finished) =>
                pc = "done" /\ value = Value_Boolean(~same)

\* `1 == "1"` has been evaluated, to false.
C13_Witness ==
    /\ line = EqualityLine(<<"1">>, "DoubleEqual", <<Quote, "1", Quote>>)
    /\ pc = "done"
    /\ value = Value_Boolean(FALSE)

\* C14: the value evaluate returns is the value of the program's last statement: none
\* after a `let`, the assigned value after an assignment, the value read after an
\* identifier statement; for a program with no statements (an empty line, a comment) the
\* result is none.
C14_LastStatementValue ==
    pc = "done" =>
        /\ line = Typed(LetLine(Name_a, <<"1">>)) => value = Value_None
        /\ line = Typed(AssignLine(Name_a, Seven)) => value = SevenValue
        /\ line = Typed(ReadLine(Name_a)) => Some(value) = access(environment, Name_a)
        /\ program = <<>> => value = Value_None

UnterminatedMessage == "Unterminated string"

RECURSIVE FirstOf(_, _, _)
\* The first position from k on of s that holds a character of set cs; 0 when none does.
FirstOf(s, k, cs) ==
    IF k > Len(s) THEN 0
    ELSE IF s[k] \in cs THEN k
    ELSE FirstOf(s, k + 1, cs)

RECURSIVE UnescapedQuote(_, _)
\* The first position from k on of s that holds a quote no backslash escapes; 0 when none.
UnescapedQuote(s, k) ==
    IF k > Len(s) THEN 0
    ELSE IF s[k] = Quote THEN k
    ELSE IF s[k] = Backslash THEN UnescapedQuote(s, k + 2)
    ELSE UnescapedQuote(s, k + 1)

\* The string literal that opens at position q of the source fails as unterminated.
UnterminatedAt(q) ==
    /\ Failed(UnterminatedMessage)
    /\ Unwrap(error).text_span.starting_index = q - 1
    /\ tokens = <<>>

\* Token i is the string literal that opens at position q and closes at position c.
StringLiteralAt(i, q, c) ==
    tokens[i] = Token_new("String", SubSeq(line, q + 1, c - 1), TextSpan_new(q - 1, c))

\* The string tokens, and the quotes of the source that open one.
StringTokens == {i \in 1..Len(tokens) : tokens[i].kind = "String"}
Opens(q) == \E i \in StringTokens : tokens[i].text_span.starting_index = q - 1

\* The literal opening the source closes at c, or nowhere when c = 0.
FirstLiteralCloses(c) ==
    IF c = 0
    THEN UnterminatedAt(1)
    ELSE /\ ~UnterminatedAt(1)
         /\ Accepted => StringLiteralAt(1, 1, c)

\* Every string token is a literal that closes at the first position after its opening
\* quote chosen by close(q).
EveryLiteralCloses(close(_)) ==
    \A i \in StringTokens :
        StringLiteralAt(i, tokens[i].text_span.starting_index + 1,
                        close(tokens[i].text_span.starting_index + 1))

\* C15 (as amended): a string literal starts at `"` and ends at the next `"`, backslash
\* being an ordinary character; its lexeme is the text strictly between the quotes and its
\* span includes both; if a NUL character or the end of the input comes before the next
\* `"`, tokenize fails with 'Unterminated string' at the opening quote, with no tokens.
C15_StringLiteral ==
    pc # "tokenize" =>
        /\ EveryLiteralCloses(LAMBDA q : FirstOf(line, q + 1, {Quote}))
        /\ (line # <<>> /\ line[1] = Quote) =>
                FirstLiteralCloses(
                    IF FirstOf(line, 2, {Quote, NUL}) # 0
                            /\ line[FirstOf(line, 2, {Quote, NUL})] = Quote
                    THEN FirstOf(line, 2, {Quote, NUL}) ELSE 0)

\* `"\"` has been tokenized to the string literal holding a backslash.
C15_Witness ==
    /\ line = <<Quote, Backslash, Quote>>
    /\ Accepted
    /\ tokens[1] = Token_new("String", <<Backslash>>, TextSpan_new(0, 3))

\* C15 (as claimed): the literal ends at the next `"` that no backslash escapes, and it is
\* unterminated only when the end of the input comes first.
C15_Original ==
    pc # "tokenize" =>
        /\ EveryLiteralCloses(LAMBDA q : UnescapedQuote(line, q + 1))
        /\ (line # <<>> /\ line[1] = Quote) =>
                FirstLiteralCloses(UnescapedQuote(line, 2))

\* The operators written with the characters & | = ! > <, with their token kinds.
OperatorTable ==
    {[text |-> OperatorText(k), kind |-> k] :
        k \in LogicalOperators \cup EqualityOperators \cup ComparisonOperators \cup {"Bang"}}
        \cup {[text |-> <<"&">>, kind |-> "Ampersand"],
              [text |-> <<"|">>, kind |-> "Pipe"],
              [text |-> <<"=">>, kind |-> "Equal"]}

\* The operators whose text stands in s from position k on.
MatchesAt(s, k) ==
    {o \in OperatorTable :
        k + Len(o.text) - 1 <= Len(s) /\ SubSeq(s, k, k + Len(o.text) - 1) = o.text}

\* The longest of them.
LongestAt(s, k) ==
    CHOOSE o \in MatchesAt(s, k) : \A m \in MatchesAt(s, k) : Len(m.text) <= Len(o.text)

RECURSIVE LongestMatch(_, _)
\* The tokens of s from position k on when every token is the longest operator that
\* matches; blanks separate tokens.
LongestMatch(s, k) ==
    IF k > Len(s) THEN <<>>
    ELSE IF s[k] = " " THEN LongestMatch(s, k + 1)
    ELSE <<Token_new(LongestAt(s, k).kind, LongestAt(s, k).text,
                     TextSpan_new(k - 1, k - 1 + Len(LongestAt(s, k).text)))>>
            \o LongestMatch(s, k + Len(LongestAt(s, k).text))

OperatorsOnly == \A k \in 1..Len(line) : line[k] \in OperatorAlphabet
Kinds == [i \in 1..Len(tokens) |-> tokens[i].kind]

\* C16: operators are matched longest first with one character of lookahead: `&&`, `||`,
\* `==`, `!=`, `>=`, `<=` are one token when the second character follows at once, and
\* otherwise the first character is the single-character token; `&&&` is `&&` then `&`,
\* `<===` is `<=` then `==`.
C16_LongestMatch ==
    (OperatorsOnly /\ pc # "tokenize") =>
        /\ Accepted
        /\ SubSeq(tokens, 1, Len(tokens) - 1) = LongestMatch(line, 1)
        /\ line = <<"&", "&", "&">> => Kinds = <<"DoubleAmpersand", "Ampersand", "Eof">>
        /\ line = <<"<", "=", "=", "=">> => Kinds = <<"LesserOrEqual", "DoubleEqual", "Eof">>

\* `<===` has been tokenized, to `<=` and `==`.
C16_Witness ==
    /\ line = <<"<", "=", "=", "=">>
    /\ Accepted
    /\ Kinds = <<"LesserOrEqual", "DoubleEqual", "Eof">>

ExpectedMessage == "Unexpected token, expected"

\* The parse has failed with 'Unexpected token .., expected ..' at the token that starts
\* at the given offset of the line, and has returned no program.
UnexpectedAt(offset, expected) ==
    /\ Failed(ExpectedMessage)
    /\ Unwrap(error).text_span.starting_index = offset
    /\ \E i \in 1..Len(tokens) :
            /\ tokens[i].text_span = Unwrap(error).text_span
            /\ Unwrap(error).args = <<tokens[i].lexeme, expected>>
    /\ program = <<>>

\* The program is the one object literal whose pairs are ps, in that order.
ParsedAsObject(ps) ==
    /\ pc # "failed"
    /\ Len(program) = 1
    /\ program[1].type = "Expression"
    /\ program[1].expression.type = "Object"
    /\ Len(program[1].expression.pairs) = Len(ps)
    /\ \A i \in 1..Len(ps) :
            /\ program[1].expression.pairs[i].key.lexeme = ps[i].key
            /\ Shape(program[1].expression.pairs[i].value) = Leaf(ps[i].value)

\* C17: an object literal is `{`, zero or more `identifier : expression` pairs separated
\* by `,`, then `}`; `{}` has no pairs and the pairs are kept in source order; a trailing
\* comma fails at the token after it, where a pair has to start, and a pair followed by
\* neither `,` nor `}` fails at the token that follows it, both with an unexpected-token
\* error, and no program is returned.
C17_ObjectLiteral ==
    AfterParse =>
        \A ps \in PairLists :
            /\ line = ObjectLine(ps) => ParsedAsObject(ps)
            /\ line = TrailingCommaLine(ps) =>
                    UnexpectedAt(IF ps = <<>> THEN 1 ELSE Len(line) - 1, "Identifier")
            /\ (ps # <<>> /\ line = UnclosedLine(ps)) => UnexpectedAt(Len(line), "Comma")
            /\ \A q \in PairTexts :
                    (ps # <<>> /\ line = MissingCommaLine(ps, <<q>>)) =>
                        UnexpectedAt(Len(UnclosedLine(ps)) + 1, "Comma")

\* `{b: true, a: 1, b: 1}` has been parsed and evaluated.
C17_Witness ==
    /\ line = ObjectLine(<<KeyValue(Name_b, KwTrue), KeyValue(Name_a, <<"1">>),
                           KeyValue(Name_b, <<"1">>)>>)
    /\ pc = "done"
    /\ Len(program[1].expression.pairs) = 3
    /\ program[1].expression.pairs[1].key.lexeme = Name_b
    /\ program[1].expression.pairs[2].key.lexeme = Name_a

\* The kind expect_to_match asks for at part n + 1 of a binding.
ExpectedKind(n) == IF n = 1 THEN "Identifier" ELSE "Equal"

\* The span of t in `prefix t ..`; of the end-of-input token when t is empty.
OffendingSpan(kw, n, t) ==
    IF t = <<>> THEN TextSpan_new(Len(line), Len(line) + 1)
    ELSE TextSpan_new(Len(StatementPrefix(kw, n)) + 1, Len(StatementPrefix(kw, n)) + 1 + Len(t))

\* The parse has failed with the message and the arguments, the error's span being that
\* of the offending token, and has returned no program.
FailsAtToken(kw, n, t, msg, expected) ==
    /\ Failed(msg)
    /\ Unwrap(error).text_span = OffendingSpan(kw, n, t)
    /\ \E i \in 1..Len(tokens) :
            /\ tokens[i].text_span = OffendingSpan(kw, n, t)
            /\ Unwrap(error).args = <<tokens[i].lexeme>> \o expected
    /\ program = <<>>

\* The bindings `let a = 1` and `const a = 1` parse to one statement.
WellFormedBindingsParse ==
    /\ (line = LetLine(Name_a, <<"1">>) /\ AfterParse) =>
            pc # "failed" /\ Len(program) = 1 /\ program[1].type = "Let"
    /\ (line = ConstLine(Name_a, <<"1">>) /\ AfterParse) =>
            pc # "failed" /\ Len(program) = 1 /\ program[1].type = "Const"

\* C18 (as amended): a `let` or `const` statement is the keyword, an identifier, `=` and
\* an expression.  When the token after the keyword is no identifier, or the token after
\* the identifier is no `=`, parse fails with 'Unexpected token .., expected ..'; when the
\* token after `=` can start no expression, parse fails with 'Unexpected token ..', which
\* names no expected kind.  In each case the error's span is the offending token's span
\* and no program is returned.
C18_MalformedBinding ==
    /\ WellFormedBindingsParse
    /\ \A kw \in {KwLet, KwConst}, n \in 1..3, tail \in Tails :
        \A t \in WrongTokens(n) :
            (line = MalformedLine(kw, n, t, tail) /\ AfterParse) =>
                IF n < 3
                THEN FailsAtToken(kw, n, t, ExpectedMessage, <<ExpectedKind(n)>>)
                ELSE FailsAtToken(kw, n, t, "Unexpected token", <<>>)

\* `let a == 1` has failed at its `==`, where `=` was expected.
C18_Witness ==
    /\ line = MalformedLine(KwLet, 2, <<"=", "=">>, <<>>)
    /\ Failed(ExpectedMessage)
    /\ Unwrap(error).args = << <<"=", "=">>, "Equal" >>
    /\ Unwrap(error).text_span = TextSpan_new(6, 8)

\* C18 (as claimed): at each of the three positions the error is
\* 'Unexpected token .., expected ..'.
C18_Original ==
    /\ WellFormedBindingsParse
    /\ \A kw \in {KwLet, KwConst}, n \in 1..3, tail \in Tails :
        \A t \in WrongTokens(n) :
            (line = MalformedLine(kw, n, t, tail) /\ AfterParse) =>
                /\ Failed(ExpectedMessage)
                /\ Unwrap(error).text_span = OffendingSpan(kw, n, t)
                /\ program = <<>>

NotAccessibleMessage == "Can't access property of as it's not accessible"
PropertyMessage == "Can't access the property as it's not defined"

\* C19: a property access whose operand evaluates to a value that is no object fails with
\* the 'not accessible' error; on an object that lacks the property it fails with the
\* 'not defined' error; otherwise it yields the value stored under the property.  In a
\* fresh root environment `math.pi`, `math.e` and `fns.version` succeed.
C19_PropertyAccess ==
    Finished =>
        /\ \A v \in EqualityOperands, p \in {Name_a, Name_b} :
                line = AccessLine(v.text, p) =>
                    IF v.value.type # "Object"
                    THEN Failed(NotAccessibleMessage) /\ Unwrap(error).args = <<v.value>>
                    ELSE IF p \in DOMAIN v.value.object
                    THEN pc = "done" /\ value = v.value.object[p]
                    ELSE Failed(PropertyMessage) /\ Unwrap(error).args = <<p>>
        /\ line = DotLine(Name_math, Name_pi) => pc = "done" /\ value = Value_Number(PI)
        /\ line = DotLine(Name_math, Name_e) => pc = "done" /\ value = Value_Number(E)
        /\ line = DotLine(Name_fns, Name_version) =>
                pc = "done" /\ value = Value_String(<<"0", ".", "0", ".", "1">>)
        /\ line \in {DotLine(Name_math, Name_version), DotLine(Name_fns, Name_pi),
                     DotLine(Name_fns, Name_e)} =>
                Failed(PropertyMessage)

\* `let c = {a: 1} c.b` has failed: the object has no property b.
C19_Witness ==
    /\ line = AccessLine(<<"{", "a", ":", "1", "}">>, Name_b)
    /\ Failed(PropertyMessage)
    /\ Unwrap(error).args = <<Name_b>>

\* In the frame evaluate creates under the supplied parent, x is bound only in a parent,
\* and as a mutable name.
MutableInParentOnly(x) ==
    /\ IsSome(parent)
    /\ x \notin DOMAIN Environment_new(parent).variables
    /\ is_constant(Unwrap(parent), x) = Some(FALSE)

\* C20: evaluate never modifies the supplied parent: the parent of the environment it
\* returns is exactly the environment supplied; an assignment `x = w` to a mutable name
\* bound only in a parent succeeds, binds x to w as a mutable name in the new innermost
\* frame, and leaves the parent's binding of x as it was.
C20_ParentUntouched ==
    /\ pc = "done" => environment.parent = parent
    /\ \A x \in BoundNames :
        (MutableInParentOnly(x) /\ Finished
                /\ line \in {AssignLine(x, Seven), AssignReadLine(x, Seven)}) =>
            /\ Yields(SevenValue)
            /\ x \in DOMAIN environment.variables
            /\ environment.variables[x] = Binding(SevenValue, FALSE)
            /\ access(Unwrap(environment.parent), x) = access(Unwrap(parent), x)
            /\ Len(history) = 1 =>
                    \E l \in Literals :
                        /\ history[1].line = LetLine(x, l.text)
                        /\ access(Unwrap(environment.parent), x) = Some(l.value)

\* After `let a = 1`, the chained `a = 7` has bound a to 7 in its own frame; the parent
\* still binds a to 1.
C20_Witness ==
    /\ Len(history) = 1
    /\ history[1].line = LetLine(Name_a, <<"1">>)
    /\ line = AssignLine(Name_a, Seven)
    /\ pc = "done"
    /\ environment.variables[Name_a] = Binding(SevenValue, FALSE)
    /\ access(Unwrap(environment.parent), Name_a) = Some(Value_Number(Frac(1, 1)))

UnboundTargetMessage == "Can't assign to the variable as it's not defined"

\* C21: in `x = e` the target is checked before e is evaluated: an unbound x fails with
\* the 'not defined' error of the assignment and a constant x with the 'is a constant'
\* error, each naming x at a span that starts at x; the error e would raise never
\* surfaces and no environment is returned.
C21_TargetCheckedFirst ==
    \A x \in BadTargets, e \in FailingValues :
        (line = BadAssignLine(x, e.text) /\ Finished) =>
            /\ Failed(IF x = Name_u THEN UnboundTargetMessage ELSE ConstantMessage)
            /\ Unwrap(error).args = <<x>>
            /\ Unwrap(error).text_span.starting_index = Len(TargetPrefix(x))
            /\ environment = <<>>

\* `u = (1/0)` has failed on its unbound target, not on the division.
C21_Witness ==
    /\ line = BadAssignLine(Name_u, <<"(", "1", "/", "0", ")">>)
    /\ Failed(UnboundTargetMessage)
    /\ Unwrap(error).args = <<Name_u>>

UnaryMessage == "Can't use with"

\* The value of `op v` by the table of the claim; None where the combination fails.
UnaryTable(op, v) ==
    CASE op = "Bang" /\ v.type = "Boolean" -> Some(Value_Boolean(~v.boolean))
      [] op = "Plus" /\ v.type = "Number" -> Some(v)
      [] op = "Minus" /\ v.type = "Number" ->
            Some(Value_Number(Frac(0 - v.number.num, v.number.den)))
      [] OTHER -> None

\* The evaluation has ended as the table says for op applied to v.
UnaryOutcome(op, v) ==
    IF IsSome(UnaryTable(op, v))
    THEN pc = "done" /\ value = Unwrap(UnaryTable(op, v))
    ELSE Failed(UnaryMessage) /\ Unwrap(error).args = <<op, v>>

\* C22: `!` on a boolean yields its negation, `+` on a number the same number, `-` on a
\* number its negation; every other (operator, operand type) fails with the "Can't use"
\* error; nested prefixes apply innermost first, the inner failure being the result, and
\* `--+-5` yields -5.
C22_UnaryOperators ==
    Finished =>
        /\ \A op \in UnaryOperators, v \in EqualityOperands :
                line = PrefixLine(OperatorText(op), v.text) => UnaryOutcome(op, v.value)
        /\ \A op1 \in UnaryOperators, op2 \in UnaryOperators, v \in EqualityOperands :
                line = PrefixLine(OperatorText(op1) \o OperatorText(op2), v.text) =>
                    IF IsSome(UnaryTable(op2, v.value))
                    THEN UnaryOutcome(op1, Unwrap(UnaryTable(op2, v.value)))
                    ELSE UnaryOutcome(op2, v.value)
        /\ line = <<"-", "-", "+", "-", "5">> =>
                pc = "done" /\ value = Value_Number(Frac(-5, 1))

\* `--+-5` has been evaluated, to -5.
C22_Witness ==
    /\ line = <<"-", "-", "+", "-", "5">>
    /\ pc = "done"
    /\ value = Value_Number(Frac(-5, 1))

BinaryMessage == "Can't use with and"
ArithmeticOperators == AdditiveOperators \cup MultiplicativeOperators

\* The type of `l op r` by the table of the claim for operands of types lt and rt; None
\* where the triple is not in the table.
BinaryTable(op, lt, rt) ==
    CASE op = "Plus" /\ lt = "String" /\ rt = "String" -> Some("String")
      [] op \in ArithmeticOperators /\ lt = "Number" /\ rt = "Number" -> Some("Number")
      [] op \in ComparisonOperators /\ lt = "Number" /\ rt = "Number" -> Some("Boolean")
      [] op \in LogicalOperators /\ lt = "Boolean" /\ rt = "Boolean" -> Some("Boolean")
      [] op \in EqualityOperators -> Some("Boolean")
      [] OTHER -> None

\* C23: a binary operation succeeds only on `+` with two strings (their concatenation) or
\* two numbers, `-`, `*`, `/`, `>`, `<`, `>=`, `<=` with two numbers, `&&`, `||` with two
\* booleans and `==`, `!=` with any two values; every other (operator, left type, right
\* type) fails with the "Can't use .. with .. and .." error naming the operator and the
\* two values unconverted.
C23_BinaryOperandTypes ==
    Finished =>
        /\ \A l \in TypedOperands, op \in BinaryOperators, r \in TypedOperands :
                line = TypedLine(l.text, op, r.text) =>
                    IF IsSome(BinaryTable(op, l.value.type, r.value.type))
                    THEN /\ pc = "done"
                         /\ value.type = Unwrap(BinaryTable(op, l.value.type, r.value.type))
                         /\ value.type = "String" =>
                                value.string = l.value.string \o r.value.string
                    ELSE /\ Failed(BinaryMessage)
                         /\ Unwrap(error).args = <<op, l.value, r.value>>
        /\ line = HelloWorldLine =>
                /\ pc = "done"
                /\ value = Value_String(<<"h", "e", "l", "l", "o", ",", " ",
                                          "w", "o", "r", "l", "d", "!">>)

\* `"1" + 1` has failed: a string and a number are not added.
C23_Witness ==
    /\ line = TypedLine(<<Quote, "1", Quote>>, "Plus", <<"1">>)
    /\ Failed(BinaryMessage)
    /\ Unwrap(error).args = <<"Plus", Value_String(<<"1">>), Value_Number(Frac(1, 1))>>

\* evaluate has returned the error with the message, raised inside the text that spans
\* [from, to) of the line, and no (value, environment) pair.
FailsInside(msg, from, to) ==
    /\ Failed(msg)
    /\ Unwrap(error).text_span.starting_index >= from
    /\ Unwrap(error).text_span.ending_index <= to
    /\ value = Value_None
    /\ environment = <<>>

\* C24: statements run in program order and the first failing statement's error is the
\* result of evaluate, no later statement being executed and no (value, environment) pair
\* returned; in a binary expression the left operand is evaluated before the right, so
\* that when both fail the error is the left operand's.
C24_FailFastInOrder ==
    Finished =>
        \A l \in FailingExpressions :
            /\ \A op \in BinaryOperators, r \in FailingExpressions :
                    line = BothFailLine(l.text, op, r.text) =>
                        FailsInside(l.value, 0, Len(l.text))
            /\ \A prefix \in StatementPrefixes,
                  r \in FailingExpressions \cup {Lit(LetLine(Name_b, <<"2">>), "")} :
                    line = TwoFailLine(prefix, l.text, r.text) =>
                        /\ Len(program) = (IF prefix = <<>> THEN 2 ELSE 3)
                        /\ FailsInside(l.value, Len(prefix), Len(prefix) + Len(l.text))

\* `let a = 1 (1/0) u` has failed with the division error of its second statement.
C24_Witness ==
    /\ line = TwoFailLine(LetLine(Name_a, <<"1">>) \o <<" ">>, <<"(", "1", "/", "0", ")">>,
                          Name_u)
    /\ Len(program) = 3
    /\ Failed(DivideMessage)

\* The Value a literal of PairTexts denotes.
PairValue(text) == IF text = KwTrue THEN Value_Boolean(TRUE) ELSE Value_Number(Frac(1, 1))

\* The mapping of the pairs ps: each key with the value of its last occurrence.
LastOccurrence(ps, k) == CHOOSE i \in 1..Len(ps) :
    ps[i].key = k /\ \A j \in (i + 1)..Len(ps) : ps[j].key # k
ExpectedObject(ps) ==
    [k \in {ps[i].key : i \in 1..Len(ps)} |-> PairValue(ps[LastOccurrence(ps, k)].value)]

Two == Value_Number(Frac(2, 1))

\* C25: an object literal evaluates its pairs' values in source order and yields a
\* mapping with one entry per distinct key, holding the value of the key's last
\* occurrence; an error in the value of any pair makes the whole literal fail (with the
\* error of the first such pair).
C25_ObjectEvaluation ==
    Finished =>
        /\ \A ps \in PairLists :
                line = ObjectLine(ps) =>
                    pc = "done" /\ value = Value_Object(ExpectedObject(ps))
        /\ \A l \in PairValues, r \in PairValues :
                line = ValuesLine(l.text, r.text) =>
                    IF l.text = OneText /\ r.text = OneText
                    THEN pc = "done"
                    ELSE Failed(IF l.text = OneText THEN r.value ELSE l.value)
        /\ line = DuplicateKeyLine => pc = "done" /\ value = Value_Object(Name_a :> Two)
        /\ line = AssignThenReadLine =>
                pc = "done" /\ value = Value_Object(Name_a :> Two @@ Name_b :> Two)
        /\ line = ReadThenAssignLine =>
                /\ pc = "done"
                /\ value = Value_Object(Name_a :> Value_Number(Frac(1, 1)) @@ Name_b :> Two)
        /\ line = TestObjectLine =>
                /\ pc = "done"
                /\ value = Value_Object(
                        <<"n", "a", "m", "e">> :> Value_String(<<"f", "n", "s">>)
                        @@ <<"p", "a", "r", "a", "d", "i", "g", "m">> :>
                            Value_String(<<"f", "u", "n", "c", "t", "i", "o", "n", "a", "l">>)
                        @@ Name_wip :> Value_Boolean(TRUE))

\* `{a: 1, a: true}` has been evaluated, to the object whose a is true.
C25_Witness ==
    /\ line = ObjectLine(<<KeyValue(Name_a, <<"1">>), KeyValue(Name_a, KwTrue)>>)
    /\ pc = "done"
    /\ value = Value_Object(Name_a :> Value_Boolean(TRUE))


(***************************************************************************)
(* C26: spans of the expression nodes                                      *)
(***************************************************************************)
Covers(outer, inner) ==
    /\ outer.starting_index <= inner.starting_index
    /\ inner.ending_index <= outer.ending_index

\* The first and the last token that belong to a node.
RECURSIVE FirstToken(_)
FirstToken(e) ==
    CASE e.type = "None" -> e.none
      [] e.type = "Boolean" -> e.boolean
      [] e.type = "Numeric" -> e.number
      [] e.type = "String" -> e.string
      [] e.type = "Object" -> e.open_brace
      [] e.type = "Identifier" -> e.identifier
      [] e.type = "Access" -> FirstToken(e.object)
      [] e.type = "Unary" -> e.operator
      [] e.type = "Binary" -> FirstToken(e.left)
      [] e.type = "Assignment" -> e.identifier

RECURSIVE LastToken(_)
LastToken(e) ==
    CASE e.type = "None" -> e.none
      [] e.type = "Boolean" -> e.boolean
      [] e.type = "Numeric" -> e.number
      [] e.type = "String" -> e.string
      [] e.type = "Object" -> e.close_brace
      [] e.type = "Identifier" -> e.identifier
      [] e.type = "Access" -> e.property
      [] e.type = "Unary" -> LastToken(e.right)
      [] e.type = "Binary" -> LastToken(e.right)
      [] e.type = "Assignment" -> LastToken(e.expression)

\* The child expressions and the tokens a node holds.
ChildExpressions(e) ==
    CASE e.type = "Object" -> [i \in 1..Len(e.pairs) |-> e.pairs[i].value]
      [] e.type = "Access" -> <<e.object>>
      [] e.type = "Unary" -> <<e.right>>
      [] e.type = "Binary" -> <<e.left, e.right>>
      [] e.type = "Assignment" -> <<e.expression>>
      [] OTHER -> <<>>

ChildTokens(e) ==
    CASE e.type = "Object" ->
            <<e.open_brace, e.close_brace>> \o [i \in 1..Len(e.pairs) |-> e.pairs[i].key]
      [] e.type = "Access" -> <<e.property>>
      [] e.type = "Unary" -> <<e.operator>>
      [] e.type = "Binary" -> <<e.operator>>
      [] e.type = "Assignment" -> <<e.identifier>>
      [] OTHER -> <<FirstToken(e)>>

IsToken(t) == \E k \in 1..Len(tokens) : tokens[k] = t

RECURSIVE SpansCover(_)
SpansCover(e) ==
    /\ text_span(e).starting_index < text_span(e).ending_index
    /\ text_span(e).starting_index = FirstToken(e).text_span.starting_index
    /\ text_span(e).ending_index = LastToken(e).text_span.ending_index
    /\ \A k \in 1..Len(ChildTokens(e)) :
          /\ IsToken(ChildTokens(e)[k])
          /\ Covers(text_span(e), ChildTokens(e)[k].text_span)
    /\ \A k \in 1..Len(ChildExpressions(e)) :
          /\ Covers(text_span(e), text_span(ChildExpressions(e)[k]))
          /\ SpansCover(ChildExpressions(e)[k])

\* C26: in every program the parser returns, the span of each expression node starts
\* where its first token starts, ends where its last token ends, and covers the span of
\* each of its child expressions and of each token it holds, at every depth.
C26_SpansCoverChildren ==
    AfterParse => \A i \in 1..Len(program) : SpansCover(program[i].expression)

\* A binary expression whose left operand is itself a binary expression has been parsed,
\* and its span ends after the span of that operand.
C26_Witness ==
    /\ AfterParse
    /\ \E i \in 1..Len(program) :
          /\ program[i].expression.type = "Binary"
          /\ program[i].expression.left.type = "Binary"
          /\ text_span(program[i].expression.left).ending_index
                < text_span(program[i].expression).ending_index


(***************************************************************************)
(* C27: the position reported for an error                                 *)
(***************************************************************************)
NewlinesBefore(source_code, i) == {k \in 1..i : source_code[k] = "\n"}

\* The number of characters before index i that follow the last newline before i.
SinceNewline(source_code, i) ==
    Cardinality({k \in 1..i : \A n \in NewlinesBefore(source_code, i) : n < k})

Position(source_code, i) ==
    [line |-> 1 + Cardinality(NewlinesBefore(source_code, i)),
     column |-> 1 + SinceNewline(source_code, i)]

ErrorIndex == Unwrap(error).text_span.starting_index

\* C27: when a run fails, the span of the error starts at an index i inside the source or
\* at its end, and the reported line is 1 plus the number of newlines before i and the
\* reported column 1 plus the number of characters between the last newline before i (or
\* the start of the source) and i; an error at index 0 is reported at line 1, column 1.
C27_ReportedPosition ==
    pc = "failed" =>
        /\ ErrorIndex <= Len(line)
        /\ report(Unwrap(error), line) = Position(line, ErrorIndex)
        /\ ErrorIndex = 0 => report(Unwrap(error), line) = [line |-> 1, column |-> 1]

\* An error on the second line has been reported at a column greater than 1.
C27_Witness ==
    /\ pc = "failed"
    /\ report(Unwrap(error), line).line = 2
    /\ report(Unwrap(error), line).column = 2


(***************************************************************************)
(* C28: identifiers and property accesses                                  *)
(***************************************************************************)
FollowedByDot(k) == At(tokens, k + 1).kind = "Dot"

\* What parse_primary_expression returns at an identifier token: r is the result at token
\* index k.
AsAccess(r, k) ==
    /\ r.tag = "Ok"
    /\ r.node.type = "Access"
    /\ r.node.object.identifier = At(tokens, k)
    /\ r.node.property = At(tokens, k + 2)
    /\ r.index = k + 3

AsDotWithoutProperty(r, k) ==
    /\ r.tag = "Err"
    /\ Unwrap(r.error).msg = ExpectedMessage
    /\ Unwrap(r.error).args = <<At(tokens, k + 2).lexeme, "Identifier">>
    /\ Unwrap(r.error).text_span = At(tokens, k + 2).text_span

AsIdentifier(r, k) ==
    /\ r.tag = "Ok"
    /\ r.node.type = "Identifier"
    /\ r.node.identifier = At(tokens, k)
    /\ r.index = k + 1

PrimaryAtIdentifier(r, k) ==
    IF FollowedByDot(k)
    THEN IF At(tokens, k + 2).kind = "Identifier"
         THEN AsAccess(r, k)
         ELSE AsDotWithoutProperty(r, k)
    ELSE AsIdentifier(r, k)

SecondDot(x, p) == Len(x) + 1 + Len(p)

\* C28: at every identifier token of a tokenized source, the primary expression is a
\* property access of three tokens (identifier, `.`, identifier) when the next token is a
\* `.`, failing at the third token when that is not an identifier, and a plain
\* identifier of one token otherwise; and a run of `x.p.q` fails in the parser at the
\* second `.`, which no access expression has taken.
C28_AccessNotChainable ==
    /\ Accepted =>
          \A k \in 0..(Len(tokens) - 1) :
              At(tokens, k).kind = "Identifier" =>
                  PrimaryAtIdentifier(parse_primary_expression(tokens, k), k)
    /\ \A x \in {Name_fns, Name_u}, p \in {Name_version, Name_a}, q \in {Name_a, Name_b} :
          (AfterParse /\ line = ChainedDotLine(x, p, q)) =>
              /\ Failed("Unexpected token")
              /\ Unwrap(error).args = <<<<".">>>>
              /\ Unwrap(error).text_span = TextSpan_new(SecondDot(x, p), SecondDot(x, p) + 1)

\* `fns.version.a` has been tokenized and its run has failed in the parser.
C28_Witness ==
    /\ line = ChainedDotLine(Name_fns, Name_version, Name_a)
    /\ pc = "failed"
    /\ AsAccess(parse_primary_expression(tokens, 0), 0)


(***************************************************************************)
(* C29: binding a name that is already bound                               *)
(***************************************************************************)
\* The outcome of a use of x after the binding `k x = 2`.
AfterBinding(k, x, use) ==
    IF use = ReadLine(x) THEN pc = "done" /\ value = Two
    ELSE IF k = KwConst THEN Failed(ConstantMessage) /\ Unwrap(error).args = <<x>>
    ELSE pc = "done" /\ value = SevenValue

\* C29: a `let` or `const` of a name that is already bound (in the same evaluation or in
\* one the evaluation is chained to, as a constant or not, built-in names included)
\* succeeds; right after `k x = 2` the name `x` yields 2, and `x = 7` succeeds when k is
\* `let` and fails with the 'is a constant' error when k is `const`.  A binding fails
\* only with the error of its expression.
C29_RebindingSucceeds ==
    Finished =>
        \A x \in BoundNames, k2 \in Keywords : \A use \in Uses(x) :
            /\ \A k1 \in Keywords :
                  line = RebindLine(k1, k2, x, use) => AfterBinding(k2, x, use)
            /\ line = BindUseLine(k2, x, use) => AfterBinding(k2, x, use)
            /\ line = BindLine(k2, x, Name_u) =>
                  Failed(NotDefinedMessage) /\ Unwrap(error).args = <<Name_u>>

\* After `const fns = 1` a chained evaluation of `let fns = 2 fns = 7` has yielded 7.
C29_Witness ==
    /\ Len(history) = 1
    /\ history[1].line = BindLine(KwConst, Name_fns, <<"1">>)
    /\ line = BindUseLine(KwLet, Name_fns, AssignLine(Name_fns, Seven))
    /\ pc = "done"
    /\ value = SevenValue


(***************************************************************************)
(* C30: the parser stays inside the token sequence                         *)
(***************************************************************************)
LastIndex == Len(tokens) - 1
IsEof(k) == At(tokens, k).kind = "Eof"

\* The index of the first end-of-input token at or after token index k.
FirstEof(k) == CHOOSE j \in k..LastIndex : IsEof(j) /\ \A h \in k..(j - 1) : ~IsEof(h)

\* r is what parse_statement returns at token index k: it has read no token out of
\* bounds, and when it succeeds it has advanced, and not past an end-of-input token.
StatementWithin(r, k) ==
    /\ r # ParsePanic
    /\ r.tag = "Ok" => (k < r.index /\ r.index <= FirstEof(k))

\* C30: every token sequence the tokenizer returns ends with the end-of-input token;
\* parse of it returns (a program, an error or the abort of a number conversion) without
\* reading a token at an index beyond that of the final token; and a statement parsed at
\* any index holding another token consumes at least one token and none that is an
\* end-of-input token.
C30_ParserStaysInBounds ==
    Accepted =>
        /\ IsEof(LastIndex)
        /\ parse(tokens) # ParsePanic
        /\ parse(tokens).tag = "Ok" => IsEof(parse(tokens).index)
        /\ \A k \in 0..LastIndex :
              ~IsEof(k) => StatementWithin(parse_statement(tokens, k), k)

\* `const a =` has been parsed: the parser has reached the end-of-input token, failed
\* there, and read nothing after it.
C30_Witness ==
    /\ line = Words(<<KwConst, Name_a, Eq>>)
    /\ pc = "failed"
    /\ Unwrap(error).text_span = At(tokens, LastIndex).text_span
    /\ IsEof(LastIndex)

====
